---- MODULE Spec2Model ----
(***************************************************************************)
(* A model of gdb-heap (rogerhu/gdb-heap): the usage model and its         *)
(* refinement protocol (heap/__init__.py), the glibc chunk walker          *)
(* (heap/glibc.py), the CPython categorization hooks (heap/cpython.py)     *)
(* and the snapshot history (heap/history.py).                             *)
(*                                                                         *)
(* The package is Python 2 code (heap/glibc.py and heap/cpython.py use the *)
(* print statement, long and "except E, e"), so comparisons follow         *)
(* Python 2: None orders below every integer.                              *)
(*                                                                         *)
(* The module holds several specifications, one per subsystem; each one    *)
(* leaves the variables of the other subsystems untouched.                 *)
(***************************************************************************)
EXTENDS Integers, Sequences, FiniteSets, TLC

VARIABLES
    usage,      \* UsageSet.usage_by_address: address -> [category, level]
    visited,    \* the caller-supplied "visited" set object
    calls,      \* log of the set_addr_category calls made so far
    \* categorize_usage_list
    passPc,     \* where the pass is: "loop", "refs", "instance", "blocks",
                \* "done", "raised", "MemoryError"
    ulist,      \* usage_list: the record addresses in list order
    idx,        \* position of the for loop in usage_list
    uobj,       \* Usage.obj of each record: None or the wrapper class chosen
    mkind,      \* inspected memory: what the object header at an address is
    mref,       \* inspected memory: the pointer field the wrapper follows
    mnext,      \* inspected memory: PyIntBlock.next
    cur,        \* self of the running HeapTypeObjectPtr.categorize_refs
    rlevel,     \* its level argument (one frame of recursion per level)
    blk,        \* val_block_list of python_categorization
    turn,       \* parity of the turns taken by its while loop
    \* iter_chunks / iter_usage
    walkPc,     \* where the walk is: "mmap", "mmap_walk", "sbrk", "sbrk_walk",
                \* "done", "raised"
    mode,       \* who consumes the chunks: "iter_chunks" or "iter_usage"
    lay,        \* what the allocator's bookkeeping says: sbrk_base, top, arena
    msize,      \* inspected memory: the size field of the chunk at an address
    chunk,      \* address of the walker's current chunk
    wturn,      \* parity of the turns taken by the walker's while loops
    seen,       \* log of the chunks yielded so far
    out,        \* the Usage records iter_usage has yielded so far
    \* heap label / heap diff
    heap,       \* the inferior's allocations: start -> size, 0 when free
    snapshots,  \* History.snapshots
    diff,       \* the Diff built by the last 'heap diff', or NoDiff
    cmd,        \* the last command run and what it did
    \* heap select
    qtext,      \* the query text: a sequence of characters
    lexpos,     \* lexer.lexpos: how many characters the lexer has consumed
    la,         \* the parser's lookahead token, or NoTok
    stack,      \* the parser's symbol stack
    illegal,    \* the characters t_error has reported
    qfilter,    \* the filter expression of the Query
    inventory,  \* the Usage records iter_usage yields to the Query
    qpos,       \* position of Query.__iter__ in the inventory
    selected,   \* the rows added to the table so far
    raised,     \* the exception 'heap select' has raised, NoError if none
    qpc,        \* where 'heap select' is
    chunks_by_size, \* 'heap sizes': the number of chunks counted, by size
    num_chunks,     \* 'heap sizes': the number of chunks counted
    total_size,     \* 'heap sizes': the sum of the sizes counted
    table,          \* 'heap sizes': the rows of the table written
    crec,       \* the Usage record that ensure_category is called on
    mem,        \* what the sniffers find in the memory of that record
    ncat,       \* the number of calls of categorize
    cpc,        \* where the categorization of the record is
    \* heap (the report by category) and lazily_get_usage_list
    inferior,   \* the inferior: its register state and its live allocations
    cached_usage_list,  \* heap.__cached_usage_list
    cached_reg_state,   \* heap.__cached_reg_state
    hpc,        \* where the 'heap' command is
    scan,       \* the locals of the running lazily_get_usage_list
    tally,      \* the locals of Heap.invoke
    report,     \* the rows of the table 'heap' has written
    intr,       \* a KeyboardInterrupt was delivered to the running command
    hcall,      \* what the last call of lazily_get_usage_list did
    first,      \* the categories an earlier run of the pass over the same
                \* records left, <<>> when there was none
    \* the expansion of a Python arena into the records of its pool
    obmalloc,   \* the inferior: arena_object.pool_address, the pool_header
                \* fields and the first word of every block of the pool
    pit,        \* the locals of the running generators of the expansion
    pout,       \* the records PyArenaPtr.iter_usage has yielded
    \* Diff.stats
    totals,     \* total size and number of records of the two snapshots
    rendered    \* the string Diff.stats returned, <<>> before the call

setVars == <<usage, visited, calls>>
passVars == <<passPc, ulist, idx, uobj, mkind, mref, mnext, cur, rlevel, blk,
              turn>>
walkVars == <<walkPc, mode, lay, msize, chunk, wturn, seen, out>>
histVars == <<heap, snapshots, diff, cmd>>
queryVars == <<qtext, lexpos, la, stack, illegal, qfilter, inventory, qpos,
               selected, raised, qpc>>
sizesVars == <<chunks_by_size, num_chunks, total_size, table>>
catVars == <<crec, mem, ncat, cpc>>
heapVars == <<inferior, cached_usage_list, cached_reg_state, hpc, scan, tally,
              report, intr, hcall>>
permVars == <<first>>
poolVars == <<obmalloc, pit, pout>>
fmtVars == <<totals, rendered>>
restVars == <<permVars, poolVars, fmtVars>>
lateVars == <<heapVars, restVars>>

vars == <<usage, visited, calls,
          passPc, ulist, idx, uobj, mkind, mref, mnext, cur, rlevel, blk, turn,
          walkPc, mode, lay, msize, chunk, wturn, seen, out,
          heap, snapshots, diff, cmd,
          qtext, lexpos, la, stack, illegal, qfilter, inventory, qpos,
          selected, raised, qpc,
          chunks_by_size, num_chunks, total_size, table,
          crec, mem, ncat, cpc,
          inferior, cached_usage_list, cached_reg_state, hpc, scan, tally,
          report, intr, hcall,
          first, obmalloc, pit, pout, totals, rendered>>

(***************************************************************************)
(* Bounds                                                                  *)
(***************************************************************************)
\* number of Usage records in the UsageSet (their start addresses are 1..NumRecs)
NumRecs == 1
\* largest refinement level passed to set_addr_category
MaxLevel == 2
\* number of set_addr_category calls in one run
MaxCalls == 2
\* number of Usage records handed to categorize_usage_list
NumObjs == 2
\* frames of categorize_refs the interpreter allows before it raises
\* RuntimeError (sys.getrecursionlimit(), scaled down)
MaxDepth == 3
BrkCells == 3
NumAllocs == 3
MaxSnaps == 2
MaxInv == 2
MaxWords == 5

\* None, for Usage.category
None == "None"
\* Usage.level is None (<<>>) or an integer n (<<n>>)
NoLevel == <<>>
SomeLevel(n) == <<n>>

\* start addresses of the records of the UsageSet
Present == 1..NumRecs
\* one further address that is the start of no record (static data)
Absent == NumRecs + 1
Addrs == Present \cup {Absent}

Levels == 0..MaxLevel
Categories == {"catA", "catB"}

(***************************************************************************)
(* heap/__init__.py: Usage, UsageSet                                       *)
(***************************************************************************)
\* Usage.__init__ as iter_usage calls it: category=None, level=None
NewUsage == [category |-> None, level |-> NoLevel]

\* a slip of "<=" to "<": a write at an equal level would overwrite
LevelLT(level, ulevel) == IF ulevel = NoLevel THEN FALSE ELSE level < ulevel[1]

\* the comparison turned round, "level >= u.level": the lower level would win
LevelGE(level, ulevel) == IF ulevel = NoLevel THEN TRUE ELSE level >= ulevel[1]

\* "level <= u.level" under Python 2, where u.level may be None and None is
\* smaller than every integer
LevelLE(level, ulevel) == IF ulevel = NoLevel THEN FALSE ELSE level <= ulevel[1]

\* "if visited:" is Python truthiness: None (given = FALSE) and the empty set
\* are both false
Truthy(given, vis) == given /\ vis # {}

\* set_addr_category with "return True" moved out of the "if addr in
\* self.usage_by_address" block: an unknown address would report success
set_addr_category_ret(us, addr, category, level, given, vis) ==
    IF Truthy(given, vis) /\ addr \in vis
    THEN [usage |-> us, visited |-> vis, ret |-> "False"]
    ELSE LET vis2 == IF Truthy(given, vis) THEN vis \cup {addr} ELSE vis
         IN  IF addr \in DOMAIN us /\ LevelLE(level, us[addr].level)
             THEN [usage |-> us, visited |-> vis2, ret |-> "False"]
             ELSE [usage |-> IF addr \in DOMAIN us
                             THEN [us EXCEPT ![addr] =
                                      [category |-> category,
                                       level |-> SomeLevel(level)]]
                             ELSE us,
                   visited |-> vis2, ret |-> "True"]

\* UsageSet.set_addr_category(addr, category, level, visited): the records,
\* the visited set and the value returned.  given = FALSE is visited=None.
set_addr_category(us, addr, category, level, given, vis) ==
    IF Truthy(given, vis) /\ addr \in vis
    THEN [usage |-> us, visited |-> vis, ret |-> "False"]
    ELSE LET vis2 == IF Truthy(given, vis) THEN vis \cup {addr} ELSE vis
         IN  IF addr \in DOMAIN us
             THEN IF LevelLE(level, us[addr].level)
                  THEN [usage |-> us, visited |-> vis2, ret |-> "False"]
                  ELSE [usage |-> [us EXCEPT ![addr] =
                                      [category |-> category,
                                       level |-> SomeLevel(level)]],
                        visited |-> vis2, ret |-> "True"]
             ELSE [usage |-> us, visited |-> vis2, ret |-> None]

(***************************************************************************)
(* Specification SetSpec: a caller making set_addr_category calls on one   *)
(* UsageSet, some of them with its visited set.                            *)
(***************************************************************************)
\* the pass is not running
PassIdle ==
    /\ passPc = "idle" /\ ulist = <<>> /\ idx = 0 /\ uobj = <<>>
    /\ mkind = <<>> /\ mref = <<>> /\ mnext = <<>>
    /\ cur = 0 /\ rlevel = 0 /\ blk = 0 /\ turn = 0

\* no walk is running
WalkIdle ==
    /\ walkPc = "idle" /\ mode = "idle" /\ lay = <<>> /\ msize = <<>>
    /\ chunk = 0 /\ wturn = 0 /\ seen = <<>> /\ out = <<>>

\* no Diff was built
NoDiff == <<>>

\* what a command did: whether it printed '(no history)', the entries it
\* printed otherwise, and how many times it ran Snapshot.current
Did(name, nohistory, printed, captured) ==
    [name |-> name, nohistory |-> nohistory, printed |-> printed,
     captured |-> captured]

\* the history is not in use
HistIdle ==
    /\ heap = <<>> /\ snapshots = <<>> /\ diff = NoDiff
    /\ cmd = Did("none", FALSE, <<>>, 0)

\* no token, no filter expression
NoTok == [type |-> "none"]
NoFilter == [node |-> "none"]

\* 'heap select' is not running
\* no exception has been raised
NoError == [exc |-> "none", at |-> "", pos |-> 0, value |-> <<>>]
QueryIdle ==
    /\ qtext = <<>> /\ lexpos = 0 /\ la = NoTok /\ stack = <<>>
    /\ illegal = <<>> /\ qfilter = NoFilter /\ inventory = <<>>
    /\ qpos = 0 /\ selected = <<>> /\ raised = NoError /\ qpc = "idle"

\* 'heap sizes' was not run
SizesIdle ==
    /\ chunks_by_size = <<>> /\ num_chunks = 0 /\ total_size = 0
    /\ table = <<>>

\* no record is being categorized
CatIdle == crec = <<>> /\ mem = <<>> /\ ncat = 0 /\ cpc = "idle"

\* a list object (None is the list of id 0): Python tells two lists apart by
\* identity, and both None and an empty list are false
NoList == [id |-> 0, recs |-> <<>>]
\* a register state is None (<<>>) or the text gdb printed (<<r>>)
NoReg == <<>>
NoScan == [reg_state |-> NoReg, usage_list |-> NoList]
NoTally ==
    [usage_list |-> <<>>, pos |-> 0, total_by_category |-> <<>>,
     count_by_category |-> <<>>, total_size |-> 0, total_count |-> 0]
NoCall ==
    [n |-> 0, reg |-> NoReg, prior |-> NoReg, last |-> NoReg,
     scanned |-> FALSE, returned |-> FALSE, ret |-> 0,
     before |-> [list |-> NoList, reg |-> NoReg], gathered |-> 0,
     at |-> "none"]

\* 'heap' is not in use
HeapIdle ==
    /\ inferior = <<>> /\ cached_usage_list = NoList
    /\ cached_reg_state = NoReg /\ hpc = "idle" /\ scan = NoScan
    /\ tally = NoTally /\ report = <<>> /\ intr = FALSE /\ hcall = NoCall

PermIdle == first = <<>>

NoPit == [pc |-> "idle", freeblock |-> 0, fb |-> <<>>, offset |-> 0]
PoolIdle == obmalloc = <<>> /\ pit = NoPit /\ pout = <<>>

FmtIdle == totals = <<>> /\ rendered = <<>>

LateIdle == HeapIdle /\ PermIdle /\ PoolIdle /\ FmtIdle

SetInit ==
    /\ usage = [a \in Present |-> NewUsage]
    /\ visited \in SUBSET Addrs
    /\ calls = <<>>
    /\ PassIdle /\ WalkIdle /\ HistIdle /\ QueryIdle /\ SizesIdle /\ CatIdle /\ LateIdle

\* one call; withVisited says whether the caller passes its visited set
Call(addr, category, level, withVisited) ==
    /\ Len(calls) < MaxCalls
    /\ LET r == set_addr_category(usage, addr, category, level,
                                  withVisited, visited)
       IN  /\ usage' = r.usage
           /\ visited' = r.visited
           /\ calls' = Append(calls, [addr |-> addr, category |-> category,
                                      level |-> level, vis |-> withVisited,
                                      before |-> usage,
                                      ret |-> r.ret])
    /\ UNCHANGED <<passVars, walkVars, histVars, queryVars, sizesVars,
                 catVars, lateVars>>

SetNext ==
    \E addr \in Addrs, category \in Categories, level \in Levels,
       withVisited \in BOOLEAN :
        Call(addr, category, level, withVisited)

SetSpec == SetInit /\ [][SetNext]_vars

\* the records as the i-th logged call left them
After(i) == IF i < Len(calls) THEN calls[i + 1].before ELSE usage

\* the record a call writes when it is accepted
Written(c) == [category |-> c.category, level |-> SomeLevel(c.level)]

\* Python 2 "old <= new" on recorded levels, None below every integer
LevelNotBelow(new, old) ==
    old = NoLevel \/ (new # NoLevel /\ old[1] <= new[1])

(***************************************************************************)
(* C1: a call set_addr_category(addr, category, level) on the start        *)
(* address of a record replaces category and level exactly when level is   *)
(* strictly greater than the recorded level (a record without a level      *)
(* accepts the first write); otherwise it changes nothing, so the first    *)
(* writer wins a tie; and no call ever lowers a recorded level.            *)
(***************************************************************************)
C1_Accepts(c) ==
    c.before[c.addr].level = NoLevel \/ c.level > c.before[c.addr].level[1]

C1_LevelGate ==
    \A i \in 1..Len(calls) :
        LET c == calls[i] IN
        /\ (c.addr \in Present /\ ~c.vis) =>
              /\ C1_Accepts(c) =>
                    /\ After(i) = [c.before EXCEPT ![c.addr] = Written(c)]
                    /\ c.ret = "True"
              /\ ~C1_Accepts(c) =>
                    /\ After(i) = c.before
                    /\ c.ret = "False"
        /\ \A a \in Present : LevelNotBelow(After(i)[a].level, c.before[a].level)

\* a tie and a lower-level write have both been turned down, after a first
\* write was accepted
C1_Witness ==
    \E i, j \in 1..Len(calls) :
        /\ i < j
        /\ calls[i].addr \in Present /\ calls[j].addr = calls[i].addr
        /\ ~calls[i].vis /\ ~calls[j].vis
        /\ calls[i].ret = "True" /\ calls[j].ret = "False"
        /\ calls[j].level = calls[i].level
        /\ calls[j].category # calls[i].category

(***************************************************************************)
(* C2: when the first two calls on a record have different levels, the     *)
(* record afterwards holds the category and level of the higher-level      *)
(* call, whichever of the two came first.                                  *)
(***************************************************************************)
\* the positions in the log of the calls on address a
CallsOn(a) == {i \in 1..Len(calls) : calls[i].addr = a}

Higher(c, d) == IF c.level > d.level THEN c ELSE d

C2_HigherLevelWins ==
    \A a \in Present : \A i, j \in CallsOn(a) :
        ( /\ i < j
          /\ \A k \in CallsOn(a) : k >= i /\ (k = i \/ k >= j)
          /\ ~calls[i].vis /\ ~calls[j].vis
          /\ calls[i].level # calls[j].level )
        => After(j)[a] = Written(Higher(calls[i], calls[j]))

\* the higher level was written first and the lower one second
C2_Witness ==
    \E a \in Present : \E i, j \in CallsOn(a) :
        /\ i < j
        /\ \A k \in CallsOn(a) : k >= i /\ (k = i \/ k >= j)
        /\ ~calls[i].vis /\ ~calls[j].vis
        /\ calls[i].level > calls[j].level
        /\ calls[i].category # calls[j].category

(***************************************************************************)
(* C3: with the same caller-supplied visited set passed to successive      *)
(* calls, the first call for an address records the address in the set     *)
(* and every later call for that address with the set returns False and    *)
(* changes no record; for every set, an initially empty one included.      *)
(***************************************************************************)
C3_VisitedBlocks ==
    \A i \in 1..Len(calls) :
        calls[i].vis =>
            /\ calls[i].addr \in visited
            /\ \A j \in 1..Len(calls) :
                  (i < j /\ calls[j].vis /\ calls[j].addr = calls[i].addr) =>
                      /\ calls[j].ret = "False"
                      /\ After(j) = calls[j].before

(***************************************************************************)
(* C5: a call with an address that starts no record of the UsageSet        *)
(* leaves every record's category and level as they were and does not      *)
(* return True.                                                            *)
(***************************************************************************)
C5_AbsentNoOp ==
    \A i \in 1..Len(calls) :
        calls[i].addr \notin Present =>
            /\ After(i) = calls[i].before
            /\ calls[i].ret # "True"

\* an unknown address was passed after a record had been given a category
C5_Witness ==
    \E i, j \in 1..Len(calls) :
        /\ i < j
        /\ calls[i].ret = "True"
        /\ calls[j].addr \notin Present

(***************************************************************************)
(* heap/__init__.py: categorize_usage_list, with the hooks it calls in     *)
(* heap/cpython.py.                                                        *)
(*                                                                         *)
(* The records start at PassAddrs; PassAbsent is readable memory outside   *)
(* the observed allocator.  The inspected memory is fixed while the tool   *)
(* runs but unknown to it: a cell gets its value when it is first read     *)
(* and keeps it.                                                           *)
(***************************************************************************)
PassAddrs == 1..NumObjs
PassAbsent == NumObjs + 1
PassMem == PassAddrs \cup {PassAbsent}
\* pointer values: NULL or a readable address
Ptrs == {0} \cup PassMem

\* what as_python_object / PyObjectPtr.from_pyobject_ptr make of an address:
\* "none" is no Python object, "heaptype" gives HeapTypeObjectPtr, "dict"
\* PyDictObjectPtr, "list" a plain PyObjectPtr whose tp_name is list,
\* "instance" PyInstanceObjectPtr (tp_name is instance; its in_class is
\* taken to be readable)
Kinds == {"none", "heaptype", "dict", "list", "instance"}
Unread == "?"
UnreadPtr == 0 - 1
\* gdb.parse_and_eval raised RuntimeError: the inferior has no such symbol
NoSymbol == 0 - 2

\* reading a cell gives v: its value, or any value when it was never read
Reads(m, a, v) == m[a] = Unread \/ m[a] = v
ReadsPtr(m, a, v) == m[a] = UnreadPtr \/ m[a] = v

\* tp_name of the type of the heap-type object at a (one class per object)
TName(a) == "T" \o ToString(a)

\* PyInstanceObjectPtr.cl_name of the old-style instance at a
cl_name(a) == "C" \o ToString(a)

\* Category.__str__: '%s:%s:%s' % (domain, kind, detail)
Category(domain, kind, detail) == domain \o ":" \o kind \o ":" \o detail

\* categorize(u, usage_set): the base category of the record at a, whose
\* header reads as kind k
categorize(a, k) ==
    CASE k = "heaptype" -> Category("python", TName(a), "None")
      [] k = "dict"     -> Category("python", "dict", "None")
      [] k = "list"     -> Category("python", "list", "None")
      [] k = "instance" -> Category("python", cl_name(a), "old-style")
      [] OTHER          -> Category("uncategorized", "", "size bytes")

\* set_addr_category without a visited set, as every hook calls it
Mark(us, addr, category, lvl) ==
    set_addr_category(us, addr, category, lvl, FALSE, {}).usage

\* the usage lists of the same records: every order of them
Orders == {o \in [1..NumObjs -> PassAddrs] :
              \A i, j \in 1..NumObjs : o[i] = o[j] => i = j}

PassInit ==
    /\ usage = [a \in PassAddrs |-> NewUsage]
    /\ visited = {}
    /\ calls = <<>>
    /\ passPc = "loop"
    /\ ulist \in Orders
    /\ idx = 1
    /\ uobj = [a \in PassAddrs |-> None]
    /\ mkind = [a \in PassMem |-> Unread]
    /\ mref = [a \in PassMem |-> UnreadPtr]
    /\ mnext = [a \in PassMem |-> UnreadPtr]
    /\ cur = 0 /\ rlevel = 0 /\ blk = 0 /\ turn = 0
    /\ WalkIdle /\ HistIdle /\ QueryIdle /\ SizesIdle /\ CatIdle /\ LateIdle

\* the loop body for a record that already has a category: ensure_category
\* does nothing, u.obj is None, and PythonCategorizer.categorize finds no
\* kind it follows
LoopCategorized ==
    /\ passPc = "loop" /\ idx <= Len(ulist)
    /\ usage[ulist[idx]].category # None
    /\ idx' = idx + 1
    /\ UNCHANGED <<walkVars, histVars, queryVars, sizesVars, catVars, lateVars, turn>>
    /\ UNCHANGED <<usage, visited, calls, passPc, ulist, uobj, mkind, mref,
                   mnext, cur, rlevel, blk>>

\* the loop body for a record without a category: ensure_category, then
\* u.obj.categorize_refs, then PythonCategorizer.categorize
LoopCategorize(k, r) ==
    /\ passPc = "loop" /\ idx <= Len(ulist)
    /\ LET u == ulist[idx]
           us1 == [usage EXCEPT ![u].category = categorize(u, k)]
       IN  /\ usage[u].category = None
           /\ Reads(mkind, u, k)
           /\ mkind' = [mkind EXCEPT ![u] = k]
           /\ uobj' = [uobj EXCEPT ![u] = IF k = "none" THEN None ELSE k]
           /\ CASE k = "heaptype" ->
                     \* HeapTypeObjectPtr.categorize_refs(usage_set)
                     /\ r = 0
                     /\ usage' = us1
                     /\ passPc' = "refs" /\ cur' = u /\ rlevel' = 0
                     /\ UNCHANGED <<mref, idx>>
                [] k = "dict" ->
                     \* PyDictObjectPtr.categorize_refs: ma_table
                     /\ ReadsPtr(mref, u, r)
                     /\ mref' = [mref EXCEPT ![u] = r]
                     /\ usage' = Mark(us1, r,
                           Category("cpython", "PyDictEntry table", "None"), 0)
                     /\ idx' = idx + 1
                     /\ UNCHANGED <<passPc, cur, rlevel>>
                [] k = "list" ->
                     \* PythonCategorizer.categorize: ob_item
                     /\ ReadsPtr(mref, u, r)
                     /\ mref' = [mref EXCEPT ![u] = r]
                     /\ usage' = Mark(us1, r,
                           Category("cpython", "PyListObject ob_item table",
                                    "None"), 0)
                     /\ idx' = idx + 1
                     /\ UNCHANGED <<passPc, cur, rlevel>>
                [] k = "instance" ->
                     \* PyInstanceObjectPtr.categorize_refs(usage_set)
                     /\ r = 0
                     /\ usage' = us1
                     /\ passPc' = "instance" /\ cur' = u
                     /\ UNCHANGED <<mref, idx, rlevel>>
                [] OTHER ->
                     /\ r = 0
                     /\ usage' = us1
                     /\ idx' = idx + 1
                     /\ UNCHANGED <<mref, passPc, cur, rlevel>>
    /\ UNCHANGED <<visited, calls, ulist, mnext, blk, turn, walkVars,
                   histVars, queryVars, sizesVars,
                 catVars, lateVars>>

\* one frame of HeapTypeObjectPtr.categorize_refs(usage_set, level): d is
\* what get_attr_dict reads, k the class from_pyobject_ptr gives it, t the
\* ma_table of a PyDictObjectPtr
RefsStep(d, k, t) ==
    /\ passPc = "refs"
    /\ ReadsPtr(mref, cur, d)
    /\ IF d = 0
       THEN \* no attribute dictionary: return True, and the loop continues
            /\ k = "none" /\ t = 0
            /\ mref' = [mref EXCEPT ![cur] = d]
            /\ passPc' = "loop" /\ idx' = idx + 1
            /\ cur' = 0 /\ rlevel' = 0
            /\ UNCHANGED <<usage, mkind>>
       ELSE LET detail == TName(cur) \o ".__dict__"
                us1 == Mark(usage, d, Category("python", "dict", detail),
                            rlevel + 1)
            IN  /\ Reads(mkind, d, k)
                /\ mkind' = [mkind EXCEPT ![d] = k]
                /\ CASE k = "heaptype" ->
                          \* attr_dict.categorize_refs recurses
                          /\ t = 0
                          /\ mref' = [mref EXCEPT ![cur] = d]
                          /\ usage' = us1
                          /\ IF rlevel + 1 >= MaxDepth
                             THEN /\ passPc' = "raised"
                                  /\ UNCHANGED <<cur, rlevel, idx>>
                             ELSE /\ cur' = d /\ rlevel' = rlevel + 1
                                  /\ UNCHANGED <<passPc, idx>>
                     [] k = "dict" ->
                          /\ d # cur
                          /\ ReadsPtr(mref, d, t)
                          /\ mref' = [mref EXCEPT ![cur] = d, ![d] = t]
                          /\ usage' = Mark(us1, t,
                                Category("cpython", "PyDictEntry table", detail),
                                rlevel + 1)
                          /\ passPc' = "loop" /\ idx' = idx + 1
                          /\ cur' = 0 /\ rlevel' = 0
                     [] k = "instance" ->
                          \* attr_dict is a PyInstanceObjectPtr
                          /\ t = 0
                          /\ mref' = [mref EXCEPT ![cur] = d]
                          /\ usage' = us1
                          /\ passPc' = "instance"
                          /\ cur' = d /\ rlevel' = 0
                          /\ UNCHANGED idx
                     [] OTHER ->
                          \* WrappedPointer.categorize_refs does nothing
                          /\ t = 0
                          /\ mref' = [mref EXCEPT ![cur] = d]
                          /\ usage' = us1
                          /\ passPc' = "loop" /\ idx' = idx + 1
                          /\ cur' = 0 /\ rlevel' = 0
    /\ UNCHANGED <<visited, calls, ulist, uobj, mnext, blk, turn, walkVars,
                   histVars, queryVars, sizesVars,
                 catVars, lateVars>>

\* PyInstanceObjectPtr.categorize_refs of the instance at cur: d is its
\* in_dict, t the ma_table read through in_dict.  No handler of
\* categorize_usage_list or below catches the gdb.MemoryError of reading
\* through a NULL in_dict: it leaves the pass
InstanceRefs(d, t) ==
    /\ passPc = "instance"
    /\ ReadsPtr(mref, cur, d)
    /\ LET dict_detail == cl_name(cur) \o ".__dict__"
           us1 == Mark(usage, d,
                       Category("cpython", "PyDictObject", dict_detail), 1)
       IN  IF d = 0
           THEN /\ t = 0
                /\ mref' = [mref EXCEPT ![cur] = d]
                /\ usage' = us1
                /\ passPc' = "MemoryError"
                /\ UNCHANGED <<idx, cur, rlevel>>
           ELSE /\ IF d = cur THEN t = d ELSE ReadsPtr(mref, d, t)
                /\ mref' = [mref EXCEPT ![cur] = d, ![d] = t]
                /\ usage' = Mark(us1, t,
                      Category("cpython", "PyDictEntry table", dict_detail), 2)
                /\ passPc' = "loop" /\ idx' = idx + 1
                /\ cur' = 0 /\ rlevel' = 0
    /\ UNCHANGED <<visited, calls, ulist, uobj, mkind, mnext, blk, turn,
                   walkVars, histVars, queryVars, sizesVars,
                 catVars, lateVars>>

\* the loop is over: python_categorization marks the ma_table of the
\* interned dictionary (t) and starts on block_list (h)
StartPythonCategorization(t, h) ==
    /\ passPc = "loop" /\ idx > Len(ulist)
    /\ usage' = IF t = NoSymbol THEN usage
                ELSE Mark(usage, t,
                       Category("cpython", "PyDictEntry table", "interned"), 1)
    /\ passPc' = "blocks"
    /\ blk' = h
    \* the wrappers of the loop are gone and nothing below reads the cells
    \* they read: those cells are unknown again
    /\ uobj' = [a \in PassAddrs |-> None]
    /\ mkind' = [a \in PassMem |-> Unread]
    /\ mref' = [a \in PassMem |-> UnreadPtr]
    /\ UNCHANGED <<visited, calls, ulist, idx, mnext, cur, rlevel, turn,
                   walkVars, histVars, queryVars, sizesVars,
                 catVars, lateVars>>

\* one turn of "while long(val_block_list) != 0"
BlockStep(n) ==
    /\ passPc = "blocks"
    /\ IF blk = 0
       THEN /\ n = 0
            /\ passPc' = "done"
            /\ UNCHANGED <<usage, mnext, blk, turn>>
       ELSE /\ ReadsPtr(mnext, blk, n)
            /\ mnext' = [mnext EXCEPT ![blk] = n]
            /\ usage' = Mark(usage, blk, Category("cpython", "_intblock", ""), 0)
            /\ blk' = n
            /\ turn' = 1 - turn
            /\ UNCHANGED passPc
    /\ UNCHANGED <<visited, calls, ulist, idx, uobj, mkind, mref, cur, rlevel,
                   walkVars, histVars, queryVars, sizesVars,
                 catVars, lateVars>>

PassNext ==
    \/ LoopCategorized
    \/ \E k \in Kinds, r \in Ptrs : LoopCategorize(k, r)
    \/ \E d \in Ptrs, k \in Kinds, t \in Ptrs : RefsStep(d, k, t)
    \/ \E d \in Ptrs, t \in Ptrs : InstanceRefs(d, t)
    \/ \E t \in Ptrs \cup {NoSymbol}, h \in Ptrs : StartPythonCategorization(t, h)
    \/ \E n \in Ptrs : BlockStep(n)

PassSpec == PassInit /\ [][PassNext]_vars

\* the interpreter runs the pass step after step: it never stops between two
\* statements
PassFairSpec == PassSpec /\ WF_vars(PassNext)

(***************************************************************************)
(* C4: categorize_usage_list terminates on every finite usage list, also   *)
(* when objects reference each other cyclically or the linked block list   *)
(* loops back, and when it has terminated every record has a category.     *)
(***************************************************************************)
C4_Terminates ==
    /\ <>(passPc \in {"done", "raised", "MemoryError"})
    /\ [](passPc = "done" => \A a \in PassAddrs : usage[a].category # None)

(***************************************************************************)
(* Specification PermSpec: categorize_usage_list is run on a usage list    *)
(* and then, on the same inferior memory, on fresh records of the same     *)
(* allocations in another order.  The second run starts where the loop     *)
(* over the first list has ended; python_categorization does the same      *)
(* marking in both runs.                                                   *)
(***************************************************************************)
categorize_usage_list_again(o) ==
    /\ passPc = "loop" /\ idx > Len(ulist)
    /\ first = <<>>
    /\ first' = [a \in PassAddrs |-> usage[a].category]
    /\ usage' = [a \in PassAddrs |-> NewUsage]
    /\ ulist' = o
    /\ idx' = 1
    /\ uobj' = [a \in PassAddrs |-> None]
    /\ UNCHANGED <<visited, calls, passPc, mkind, mref, mnext, cur, rlevel,
                   blk, turn>>
    /\ UNCHANGED <<walkVars, histVars, queryVars, sizesVars, catVars,
                   heapVars, poolVars, fmtVars>>

PermNext ==
    \/ PassNext
    \/ \E o \in Orders : categorize_usage_list_again(o)

PermSpec == PassInit /\ [][PermNext]_vars

(***************************************************************************)
(* C28: the category every record has when the loop of                     *)
(* categorize_usage_list is over depends on the records and on the         *)
(* inspected memory only, not on the order of the usage list: two runs     *)
(* over the same records in any two orders leave the same category at      *)
(* every address.                                                          *)
(***************************************************************************)
C28_OrderIndependent ==
    (first # <<>> /\ passPc = "loop" /\ idx > Len(ulist)) =>
        \A a \in PassAddrs : usage[a].category = first[a]

(***************************************************************************)
(* C25: a memory read that fails while the pass examines one record (in    *)
(* its base categorization or while the references of its backing object   *)
(* are followed) abandons that record only: the exception never leaves     *)
(* categorize_usage_list, so the pass is never stopped by it with records  *)
(* of the list still unexamined.                                           *)
(***************************************************************************)
C25_ReadFailureIsLocal ==
    passPc = "MemoryError" => \A i \in 1..Len(ulist) : i <= idx

(***************************************************************************)
(* heap/glibc.py: MChunkPtr and the chunk walks of MallocState, with       *)
(* their consumer iter_usage of heap/__init__.py.                          *)
(*                                                                         *)
(* The inferior has one anonymous rw-p mapping [MmapStart, MmapEnd), below *)
(* or above its brk heap, and a brk heap of BrkCells addresses from        *)
(* BrkBase; every other address is unmapped.                               *)
(* Sizes are scaled down: the smallest chunk is SIZE_BITS + 1              *)
(* bytes and an arena is two of them.  What the memory holds is unknown to *)
(* the tool: anything a size field can hold, also at odds with the         *)
(* allocator's own invariants.                                             *)
(***************************************************************************)
PREV_INUSE == 1
IS_MMAPPED == 2
NON_MAIN_ARENA == 4
SIZE_BITS == 7
\* caching_lookup_type('size_t').sizeof, for a 32-bit inferior
SIZE_SZ == 4
\* number of smallest chunks the mapping of /proc/PID/maps holds
MmapCells == 2

\* the smallest nonzero chunk size: the first bit above SIZE_BITS
Step == SIZE_BITS + 1
\* where the kernel may have put the mapping: below the brk heap, or above
\* it as mmap does on Linux; an unmapped gap lies between the two, above
\* the brk heap one that no chunk of the sizes in use spans
LowMap == Step
BrkBase == LowMap + MmapCells * Step + Step
HighMap == BrkBase + BrkCells * Step + 2 * Step
\* the (start, end) pair iter_mmap_heap_chunks yields
MmapStart == lay.mmap
MmapEnd == MmapStart + MmapCells * Step
MmapAddrs == {MmapStart + i * Step : i \in 0..(MmapCells - 1)}
BrkAddrs == {BrkBase + i * Step : i \in 0..(BrkCells - 1)}
Cells == MmapAddrs \cup BrkAddrs

\* reading the address raised RuntimeError
Unmapped == 0 - 2
UnreadSize == 0 - 1
ChunkSizes == {0, Step, 2 * Step}
FlagSets == {0, PREV_INUSE, IS_MMAPPED, IS_MMAPPED + NON_MAIN_ARENA}
\* what long(self.field('size')) can give
SizeFields == {cs + f : cs \in ChunkSizes, f \in FlagSets} \cup {Unmapped}

\* what MChunkPtr.size can read at address a of memory m: the value the
\* cell was seen to hold, anything when it was never read, RuntimeError
\* outside the mappings
Reading(m, a) ==
    IF a \in Cells
    THEN IF m[a] = UnreadSize THEN SizeFields ELSE {m[a]}
    ELSE {Unmapped}
Store(m, a, v) == IF a \in Cells THEN [m EXCEPT ![a] = v] ELSE m

\* size & ~SIZE_BITS
chunksize(size) == size - (size % (SIZE_BITS + 1))
\* size & flag, as a truth value
has_flag(size, flag) == (size \div flag) % 2 = 1
as_mem(addr) == addr + 2 * SIZE_SZ
\* a wrong next_chunk: it adds the size field with its flag bits
next_chunk_unmasked(addr, size) == addr + size
next_chunk(addr, size) == addr + chunksize(size)

\* a wrong is_inuse: it tests PREV_INUSE of the chunk itself
is_inuse_own(size, nsize) ==
    IF has_flag(size, IS_MMAPPED) THEN TRUE ELSE has_flag(size, PREV_INUSE)

\* MChunkPtr.is_inuse of a chunk whose size field is size; nsize is the size
\* field of next_chunk(), read only when the chunk is not IS_MMAPPED
is_inuse(size, nsize) ==
    IF has_flag(size, IS_MMAPPED) THEN TRUE ELSE has_flag(nsize, PREV_INUSE)

\* heap/cpython.py, scaled: ARENA_SIZE is 256 << 10 and POOL_SIZE a page
ARENA_SIZE == 2 * Step
POOL_SIZE == 2 * Step

\* ArenaDetection.as_arena(ptr, chunksize) with the one arena_object whose
\* address field is arena (0: the arenas array has no used entry)
as_arena(ptr, size, arena) == size >= ARENA_SIZE /\ arena # 0 /\ ptr = arena

\* PyArenaPtr.iter_usage of a fresh arena at ptr: pool_address, the
\* high-water mark, is still the first pool address, so iter_pools yields
\* no pool
arena_iter_usage(ptr) ==
    LET excess == ptr % POOL_SIZE
    IN  IF excess # 0
        THEN <<[start |-> ptr, size |-> excess,
                category |-> Category("pyarena", "alignment wastage", "None")]>>
        ELSE <<>>

\* what iter_usage yields for a chunk it reports
Yielded(addr, size, arena) ==
    IF as_arena(as_mem(addr), chunksize(size), arena)
    THEN arena_iter_usage(as_mem(addr))
    ELSE <<[start |-> as_mem(addr), size |-> chunksize(size),
            category |-> None]>>

\* the log holds one walk that never repeats an address, and one more entry
MaxLog == MmapCells + BrkCells + 1

WalkInit ==
    /\ walkPc = "mmap"
    /\ mode \in {"iter_chunks", "iter_usage"}
    /\ lay \in {l \in [sbrk_base : {0, BrkBase}, top : BrkAddrs,
                        mmap : {LowMap, HighMap},
                        arena : {0, as_mem(LowMap), as_mem(HighMap),
                                 as_mem(BrkBase)}] :
                    l.arena \in {0, as_mem(l.mmap), as_mem(BrkBase)}}
    /\ msize = [a \in Cells |-> UnreadSize]
    /\ chunk = 0 /\ wturn = 0 /\ seen = <<>> /\ out = <<>>
    /\ usage = <<>> /\ visited = {} /\ calls = <<>>
    /\ PassIdle /\ HistIdle /\ QueryIdle /\ SizesIdle /\ CatIdle /\ LateIdle

\* the walk yields the chunk at addr and its consumer takes it: used is what
\* the consumer made of it, recs the records iter_usage yields for it
Yield(addr, sub, used, recs) ==
    IF Len(seen) < MaxLog
    THEN /\ seen' = Append(seen, [addr |-> addr, sub |-> sub, used |-> used,
                                  emitted |-> Len(recs)])
         /\ out' = out \o recs
    ELSE UNCHANGED <<seen, out>>

\* a 'heap sizes' that adds no chunk to an entry it already has
Count_once(size) ==
    IF num_chunks < MaxLog
    THEN /\ chunks_by_size' = (size :> 1) @@ chunks_by_size
         /\ num_chunks' = num_chunks + 1
         /\ total_size' = total_size + size
         /\ UNCHANGED table
    ELSE UNCHANGED sizesVars

\* the body of the loop of HeapSizes.invoke for a chunk in use of the given
\* chunk size; like the log, the counters stop at MaxLog
Count(size) ==
    IF num_chunks < MaxLog
    THEN /\ chunks_by_size' =
                IF size \in DOMAIN chunks_by_size
                THEN [chunks_by_size EXCEPT ![size] = @ + 1]
                ELSE (size :> 1) @@ chunks_by_size
         /\ num_chunks' = num_chunks + 1
         /\ total_size' = total_size + size
         /\ UNCHANGED table
    ELSE UNCHANGED sizesVars

\* iter_mmap_chunks, the body of the loop over the mappings up to the
\* while loop: v is the size field at the start of the mapping
MmapRegion ==
    /\ walkPc = "mmap"
    /\ \E v \in Reading(msize, MmapStart) :
        /\ msize' = Store(msize, MmapStart, v)
        /\ IF /\ v # Unmapped
              /\ ~has_flag(v, NON_MAIN_ARENA)
              /\ has_flag(v, IS_MMAPPED)
              /\ MmapStart + chunksize(v) <= MmapEnd
           THEN walkPc' = "mmap_walk" /\ chunk' = MmapStart
           ELSE walkPc' = "sbrk" /\ chunk' = 0
    /\ UNCHANGED <<mode, lay, wturn, seen, out>>
    /\ UNCHANGED <<setVars, passVars, histVars, queryVars, sizesVars,
                 catVars, lateVars>>

\* one turn of the while loop of iter_mmap_chunks, with the loop body of
\* its consumer: v is the size field of the current chunk
MmapNext ==
    /\ walkPc = "mmap_walk"
    /\ IF chunk >= MmapEnd
       THEN /\ walkPc' = "sbrk" /\ chunk' = 0
            /\ UNCHANGED <<msize, wturn, seen, out, sizesVars>>
       ELSE \E v \in Reading(msize, chunk) :
            /\ msize' = Store(msize, chunk, v)
            /\ IF v = Unmapped \/ ~has_flag(v, IS_MMAPPED)
               THEN \* RuntimeError is passed over, or the loop ends
                    /\ walkPc' = "sbrk" /\ chunk' = 0
                    /\ UNCHANGED <<wturn, seen, out, sizesVars>>
               ELSE /\ IF mode = "iter_usage"
                       THEN /\ Yield(chunk, "mmap", "used",
                                     Yielded(chunk, v, lay.arena))
                            /\ UNCHANGED sizesVars
                       ELSE IF mode = "heap sizes"
                       THEN \* is_inuse holds by IS_MMAPPED
                            /\ Yield(chunk, "mmap", "used", <<>>)
                            /\ Count(chunksize(v))
                       ELSE /\ Yield(chunk, "mmap", "unknown", <<>>)
                            /\ UNCHANGED sizesVars
                    /\ chunk' = next_chunk(chunk, v)
                    /\ wturn' = 1 - wturn
                    /\ UNCHANGED walkPc
    /\ UNCHANGED <<mode, lay>>
    /\ UNCHANGED <<setVars, passVars, histVars, queryVars, catVars, lateVars>>

\* iter_sbrk_chunks up to its while loop
SbrkBegin ==
    /\ walkPc = "sbrk"
    /\ IF lay.sbrk_base > 0
       THEN walkPc' = "sbrk_walk" /\ chunk' = lay.sbrk_base
       ELSE walkPc' = "done" /\ chunk' = 0
    /\ UNCHANGED <<mode, lay, msize, wturn, seen, out>>
    /\ UNCHANGED <<setVars, passVars, histVars, queryVars, sizesVars,
                 catVars, lateVars>>

\* the while loop of iter_sbrk_chunks ends: the chunk is top
SbrkEnd ==
    /\ walkPc = "sbrk_walk"
    /\ chunk = lay.top
    /\ walkPc' = "done"
    /\ UNCHANGED <<mode, lay, msize, chunk, wturn, seen, out>>
    /\ UNCHANGED <<setVars, passVars, histVars, queryVars, sizesVars,
                 catVars, lateVars>>

\* one turn of the while loop of iter_sbrk_chunks under iter_chunks, whose
\* consumer reads nothing: v is the size field next_chunk reads
SbrkNext ==
    /\ walkPc = "sbrk_walk" /\ mode = "iter_chunks"
    /\ chunk # lay.top
    /\ Yield(chunk, "brk", "unknown", <<>>)
    /\ \E v \in Reading(msize, chunk) :
        /\ msize' = Store(msize, chunk, v)
        /\ IF v = Unmapped
           THEN \* RuntimeError inside the try: break
                /\ walkPc' = "done"
                /\ UNCHANGED <<chunk, wturn>>
           ELSE /\ chunk' = next_chunk(chunk, v)
                /\ wturn' = 1 - wturn
                /\ UNCHANGED walkPc
    /\ UNCHANGED <<mode, lay>>
    /\ UNCHANGED <<setVars, passVars, histVars, queryVars, sizesVars,
                 catVars, lateVars>>

\* one turn of the while loop of iter_sbrk_chunks with the loop body of
\* iter_usage: v is the size field of the current chunk, w the one of the
\* chunk after it
SbrkUsage ==
    /\ walkPc = "sbrk_walk" /\ mode = "iter_usage"
    /\ chunk # lay.top
    /\ \E v \in Reading(msize, chunk) :
        LET m1 == Store(msize, chunk, v)
        IN  IF v = Unmapped
            THEN \* chunk.chunksize() raises in iter_usage
                 /\ Yield(chunk, "brk", "failed", <<>>)
                 /\ msize' = m1
                 /\ walkPc' = "raised"
                 /\ UNCHANGED <<chunk, wturn>>
            ELSE IF has_flag(v, IS_MMAPPED)
            THEN \* is_inuse reads nothing more
                 /\ Yield(chunk, "brk", "used", Yielded(chunk, v, lay.arena))
                 /\ msize' = m1
                 /\ chunk' = next_chunk(chunk, v)
                 /\ wturn' = 1 - wturn
                 /\ UNCHANGED walkPc
            ELSE \E w \in Reading(m1, next_chunk(chunk, v)) :
                 /\ msize' = Store(m1, next_chunk(chunk, v), w)
                 /\ IF w = Unmapped
                    THEN \* nc.has_PREV_INUSE() raises in iter_usage
                         /\ Yield(chunk, "brk", "failed", <<>>)
                         /\ walkPc' = "raised"
                         /\ UNCHANGED <<chunk, wturn>>
                    ELSE /\ IF is_inuse(v, w)
                            THEN Yield(chunk, "brk", "used",
                                       Yielded(chunk, v, lay.arena))
                            ELSE Yield(chunk, "brk", "free", <<>>)
                         /\ chunk' = next_chunk(chunk, v)
                         /\ wturn' = 1 - wturn
                         /\ UNCHANGED walkPc
    /\ UNCHANGED <<mode, lay>>
    /\ UNCHANGED <<setVars, passVars, histVars, queryVars, sizesVars,
                 catVars, lateVars>>

WalkNext ==
    \/ MmapRegion
    \/ MmapNext
    \/ SbrkBegin
    \/ SbrkEnd
    \/ SbrkNext
    \/ SbrkUsage

WalkSpec == WalkInit /\ [][WalkNext]_vars

\* the interpreter runs the generators step after step
WalkFairSpec == WalkSpec /\ WF_vars(WalkNext)

(***************************************************************************)
(* C6: iter_chunks yields finitely many chunks and then ends, whatever the *)
(* inspected memory holds, also a chunk whose size field is 0 or a brk     *)
(* walk that steps past top.                                               *)
(***************************************************************************)
C6_WalkEnds == (mode = "iter_chunks") => <>(walkPc = "done")

\* the log entries of the chunks iter_usage classified
Classified == {i \in DOMAIN seen : seen[i].used \in {"used", "free"}}

\* the size field of the chunk at address + chunksize has PREV_INUSE set
NextHasPrevInuse(addr) ==
    LET nx == next_chunk(addr, msize[addr])
    IN  nx \in Cells /\ msize[nx] >= 0 /\ has_flag(msize[nx], PREV_INUSE)

\* the chunk at addr is expanded as an arena
Expanded(addr) == as_arena(as_mem(addr), chunksize(msize[addr]), lay.arena)

\* the records yielded with the application-visible address of the chunk
RecordsOf(addr) == {j \in DOMAIN out : out[j].start = as_mem(addr)}

(***************************************************************************)
(* C7: a chunk flagged IS_MMAPPED is classified in use; a brk chunk        *)
(* without the flag is classified in use if and only if the size field of  *)
(* the chunk at address + chunksize has PREV_INUSE set.  Each time the     *)
(* walk yields a brk chunk, iter_usage emits one record when the chunk is  *)
(* in use and none when it is free: a free chunk has no record at all,     *)
(* and a chunk in use of nonzero size (malloc hands out no other) has      *)
(* exactly one.                                                            *)
(***************************************************************************)
C7_InUse ==
    mode = "iter_usage" =>
        \A i \in Classified :
            LET e == seen[i]
                size == msize[e.addr]
            IN  /\ has_flag(size, IS_MMAPPED) => e.used = "used"
                /\ (e.sub = "brk" /\ ~has_flag(size, IS_MMAPPED)) =>
                       (e.used = "used" <=> NextHasPrevInuse(e.addr))
                /\ (e.sub = "brk" /\ ~Expanded(e.addr)) =>
                       e.emitted = (IF e.used = "used" THEN 1 ELSE 0)
                /\ e.used = "free" => RecordsOf(e.addr) = {}
                /\ (e.used = "used" /\ ~Expanded(e.addr) /\ chunksize(size) > 0)
                       => Cardinality(RecordsOf(e.addr)) = 1

\* a finished iter_usage that met a mapped chunk, a brk chunk in use and a
\* free brk chunk
C7_Witness ==
    /\ mode = "iter_usage" /\ walkPc = "done"
    /\ \E i, j, k \in Classified :
        /\ seen[i].sub = "mmap"
        /\ seen[j].sub = "brk" /\ seen[j].used = "used"
        /\ ~has_flag(msize[seen[j].addr], IS_MMAPPED)
        /\ seen[k].sub = "brk" /\ seen[k].used = "free"

(***************************************************************************)
(* C8: when a memory read fails while iter_usage is running, no exception  *)
(* reaches the caller of iter_usage.                                       *)
(***************************************************************************)
C8_ReadFailureSwallowed == mode = "iter_usage" => walkPc # "raised"

(***************************************************************************)
(* C9: iter_usage yields exactly one Usage record for each chunk in use    *)
(* that is not expanded as an arena, none left out and none reported       *)
(* twice, with start the application-visible address of the chunk and      *)
(* size its chunk size.                                                    *)
(***************************************************************************)
C9_OnePerChunk ==
    mode = "iter_usage" =>
        /\ \A i \in Classified :
               (seen[i].used = "used" /\ ~Expanded(seen[i].addr)) =>
                   \E j \in DOMAIN out :
                       out[j] = [start |-> as_mem(seen[i].addr),
                                 size |-> chunksize(msize[seen[i].addr]),
                                 category |-> None]
        /\ \A j \in DOMAIN out :
               out[j].category = None =>
                   \E i \in Classified :
                       /\ seen[i].used = "used"
                       /\ out[j].start = as_mem(seen[i].addr)
        /\ \A j, k \in DOMAIN out : j # k => out[j].start # out[k].start

(***************************************************************************)
(* C22: the chunks iter_chunks yields are in strictly ascending address    *)
(* order across its two sub-walks, not only within each: every chunk of    *)
(* the mapped-region sub-walk lies below every chunk the brk sub-walk      *)
(* yields after it.                                                        *)
(***************************************************************************)
C22_AscendingAcrossSubWalks ==
    \A i, j \in DOMAIN seen :
        (i < j /\ seen[i].sub = "mmap" /\ seen[j].sub = "brk") =>
            seen[i].addr < seen[j].addr

\* the chunks the brk sub-walk has yielded
BrkSeen == SelectSeq(seen, LAMBDA e : e.sub = "brk")

C23_Yields ==
    LET brk == BrkSeen
    IN  /\ lay.sbrk_base = 0 => brk = <<>>
        /\ brk # <<>> => brk[1].addr = lay.sbrk_base
        /\ (walkPc = "done" /\ lay.sbrk_base \notin {0, lay.top}) =>
               brk # <<>>
        /\ \A k \in 1..(Len(brk) - 1) :
               brk[k + 1].addr
                   = brk[k].addr + chunksize(msize[brk[k].addr])
        /\ \A k \in DOMAIN brk : brk[k].addr # lay.top
C23_Stops ==
    (walkPc = "sbrk_walk" /\ chunk = lay.top) => walkPc' = "done"

C29_RecordsInsideChunks ==
    mode = "iter_usage" =>
        /\ \A i, j \in DOMAIN out :
               i # j => \/ out[i].start + out[i].size <= out[j].start
                        \/ out[j].start + out[j].size <= out[i].start
        /\ \A i \in DOMAIN seen :
               (seen[i].used = "used" /\ ~Expanded(seen[i].addr)) =>
                   \A j \in RecordsOf(seen[i].addr) :
                       /\ seen[i].addr <= out[j].start
                       /\ out[j].start + out[j].size
                              <= seen[i].addr
                                 + chunksize(msize[seen[i].addr])

(***************************************************************************)
(* heap/history.py: Snapshot, History and Diff, driven by the commands     *)
(* 'heap label' and 'heap diff' of heap/commands.py while the inferior     *)
(* allocates and frees between two commands.                               *)
(*                                                                         *)
(* The inferior's heap is well formed here: iter_usage yields one Usage    *)
(* per live allocation, in address order, and the allocation at address a  *)
(* has size a * Step and holds raw data.  A Usage is an object: two Usage  *)
(* objects are the same element of a set only when they are the same       *)
(* object, since the class defines neither __eq__ nor __hash__; obj is     *)
(* the identity, made of the capture that created the object and the       *)
(* address it describes.                                                   *)
(***************************************************************************)
HeapAddrs == 1..NumAllocs
SizeOf(a) == a * Step

\* the Usage objects one run of iter_usage creates, after ensure_category;
\* serial tells the runs apart
IterUsage(h, serial) ==
    LET live == SelectSeq([a \in HeapAddrs |-> a], LAMBDA a : h[a] # 0)
    IN  [i \in DOMAIN live |->
            [obj |-> <<serial, live[i]>>, start |-> live[i],
             size |-> h[live[i]], category |-> categorize(live[i], "none")]]

\* Snapshot.__init__
Snapshot(name) ==
    [name |-> name, all_usage |-> {}, totalsize |-> 0, num_usage |-> 0]

\* a wrong _add_usage: it forgets to count the block
add_usage_uncounted(snap, u) ==
    [snap EXCEPT !.all_usage = @ \cup {u},
                 !.totalsize = @ + u.size]

\* Snapshot._add_usage
add_usage(snap, u) ==
    [snap EXCEPT !.all_usage = @ \cup {u},
                 !.totalsize = @ + u.size,
                 !.num_usage = @ + 1]

\* the for loop of Snapshot.current over the usages us
RECURSIVE add_all(_, _)
add_all(snap, us) ==
    IF us = <<>> THEN snap ELSE add_all(add_usage(snap, Head(us)), Tail(us))

\* Snapshot.current(name)
current(name, h, serial) == add_all(Snapshot(name), IterUsage(h, serial))

\* Diff.__init__, with the two deltas Diff.stats computes
Diff(old, new) ==
    [old |-> old, new |-> new,
     new_minus_old |-> new.all_usage \ old.all_usage,
     old_minus_new |-> old.all_usage \ new.all_usage,
     size_change |-> new.totalsize - old.totalsize,
     count_change |-> new.num_usage - old.num_usage]

HistInit ==
    /\ heap = [a \in HeapAddrs |-> 0]
    /\ snapshots = <<>>
    /\ diff = NoDiff
    /\ cmd = Did("none", FALSE, <<>>, 0)
    /\ usage = <<>> /\ visited = {} /\ calls = <<>>
    /\ PassIdle /\ WalkIdle /\ QueryIdle /\ SizesIdle /\ CatIdle /\ LateIdle

\* the inferior runs: malloc returns address a
Malloc(a) ==
    /\ heap[a] = 0
    /\ heap' = [heap EXCEPT ![a] = SizeOf(a)]
    /\ diff' = NoDiff
    /\ cmd' = Did("run", FALSE, <<>>, 0)
    /\ UNCHANGED snapshots
    /\ UNCHANGED <<setVars, passVars, walkVars, queryVars, sizesVars,
                 catVars, lateVars>>

\* the inferior runs: free(a)
Free(a) ==
    /\ heap[a] # 0
    /\ heap' = [heap EXCEPT ![a] = 0]
    /\ diff' = NoDiff
    /\ cmd' = Did("run", FALSE, <<>>, 0)
    /\ UNCHANGED snapshots
    /\ UNCHANGED <<setVars, passVars, walkVars, queryVars, sizesVars,
                 catVars, lateVars>>

\* HeapLabel.invoke: history.add(args), and the summary it prints
HeapLabel ==
    /\ Len(snapshots) < MaxSnaps
    /\ LET serial == Len(snapshots) + 1
           snap == current("label" \o ToString(serial), heap, serial)
       IN  /\ snapshots' = Append(snapshots, snap)
           /\ cmd' = Did("label", FALSE,
                         <<[totalsize |-> snap.totalsize,
                            num_usage |-> snap.num_usage]>>, 1)
    /\ diff' = NoDiff
    /\ UNCHANGED heap
    /\ UNCHANGED <<setVars, passVars, walkVars, queryVars, sizesVars,
                 catVars, lateVars>>

\* a wrong HeapDiff.invoke: it captures with history.add, which stores the
\* fresh snapshot
HeapDiffStored ==
    /\ IF Len(snapshots) = 0
       THEN /\ cmd' = Did("diff", TRUE, <<>>, 0)
            /\ diff' = NoDiff
            /\ UNCHANGED snapshots
       ELSE LET curr == current("current", heap, 0)
            IN  /\ diff' = Diff(snapshots[Len(snapshots)], curr)
                /\ snapshots' = Append(snapshots, curr)
                /\ cmd' = Did("diff", FALSE, <<>>, 1)
    /\ UNCHANGED heap
    /\ UNCHANGED <<setVars, passVars, walkVars, queryVars, sizesVars,
                 catVars, lateVars>>

\* HeapDiff.invoke; the snapshot named current is not kept
HeapDiff ==
    /\ IF Len(snapshots) = 0
       THEN /\ cmd' = Did("diff", TRUE, <<>>, 0)
            /\ diff' = NoDiff
       ELSE /\ diff' = Diff(snapshots[Len(snapshots)],
                            current("current", heap, 0))
            /\ cmd' = Did("diff", FALSE, <<>>, 1)
    /\ UNCHANGED <<heap, snapshots>>
    /\ UNCHANGED <<setVars, passVars, walkVars, queryVars, sizesVars,
                 catVars, lateVars>>

\* what HeapLog.invoke prints for the snapshot with label i: its summary
\* and, after the first, the deltas of Diff(prev, s).stats()
LogEntry(i) ==
    LET snap == snapshots[i]
    IN  [label |-> i, name |-> snap.name,
         totalsize |-> snap.totalsize, num_usage |-> snap.num_usage,
         delta |-> IF i > 1
                   THEN LET d == Diff(snapshots[i - 1], snap)
                        IN  <<d.size_change, d.count_change>>
                   ELSE <<>>]

\* HeapLog.invoke: the snapshots from the last label down to the first
HeapLog ==
    /\ IF Len(snapshots) = 0
       THEN cmd' = Did("log", TRUE, <<>>, 0)
       ELSE cmd' = Did("log", FALSE,
                       [k \in 1..Len(snapshots) |->
                            LogEntry(Len(snapshots) + 1 - k)], 0)
    /\ diff' = NoDiff
    /\ UNCHANGED <<heap, snapshots>>
    /\ UNCHANGED <<setVars, passVars, walkVars, queryVars, sizesVars,
                 catVars, lateVars>>

HistNext ==
    \/ \E a \in HeapAddrs : Malloc(a)
    \/ \E a \in HeapAddrs : Free(a)
    \/ HeapLabel
    \/ HeapDiff
    \/ HeapLog

HistSpec == HistInit /\ [][HistNext]_vars

\* the two Usage objects describe the same allocation
SameRecord(u, v) ==
    u.start = v.start /\ u.size = v.size /\ u.category = v.category

(***************************************************************************)
(* C10: Diff(old, new) reports as added exactly the records of new for     *)
(* which old holds no record with the same (start, size, category), and as *)
(* removed exactly the records of old for which new holds no such record.  *)
(***************************************************************************)
C10_DiffByValue ==
    diff # NoDiff =>
        /\ diff.new_minus_old =
               {u \in diff.new.all_usage :
                    ~\E v \in diff.old.all_usage : SameRecord(u, v)}
        /\ diff.old_minus_new =
               {u \in diff.old.all_usage :
                    ~\E v \in diff.new.all_usage : SameRecord(u, v)}

\* the snapshots that exist: the ones of the history and the fresh capture
\* of the last 'heap diff'
Captured ==
    {snapshots[i] : i \in DOMAIN snapshots}
        \cup (IF diff = NoDiff THEN {} ELSE {diff.new})

RECURSIVE SumSizes(_)
SumSizes(S) ==
    IF S = {} THEN 0
    ELSE LET u == CHOOSE x \in S : TRUE IN u.size + SumSizes(S \ {u})

(***************************************************************************)
(* C11: for every snapshot produced by Snapshot.current, total_size() is   *)
(* the sum of the sizes of the records in its usage set and the recorded   *)
(* block count is the number of records in that set.                       *)
(***************************************************************************)
C11_Totals ==
    \A snap \in Captured :
        /\ snap.totalsize = SumSizes(snap.all_usage)
        /\ snap.num_usage = Cardinality(snap.all_usage)

\* a labelled snapshot of two allocations or more, and a fresh capture too
C11_Witness ==
    /\ \E i \in DOMAIN snapshots : Cardinality(snapshots[i].all_usage) >= 2
    /\ diff # NoDiff /\ diff.new.all_usage # {}

\* what one step may do to the history
C12_Step ==
    /\ snapshots' # snapshots =>
           /\ cmd'.name = "label"
           /\ Len(snapshots') = Len(snapshots) + 1
           /\ SubSeq(snapshots', 1, Len(snapshots)) = snapshots
    /\ cmd'.name \in {"diff", "log"} => snapshots' = snapshots

\* what the last command did, when it was 'heap diff' or 'heap log'
C12_State ==
    /\ (cmd.name \in {"diff", "log"} /\ snapshots = <<>>) =>
           cmd.nohistory /\ cmd.captured = 0 /\ diff = NoDiff
    /\ (cmd.name = "diff" /\ snapshots # <<>>) =>
           /\ ~cmd.nohistory /\ cmd.captured = 1
           /\ diff.old = snapshots[Len(snapshots)]
           /\ {u.start : u \in diff.new.all_usage}
                  = {a \in HeapAddrs : heap[a] # 0}
           /\ \A i \in DOMAIN snapshots : snapshots[i] # diff.new
    /\ cmd.name = "log" => cmd.captured = 0

(***************************************************************************)
(* C12: the history changes only by 'heap label' appending one snapshot    *)
(* at its end; 'heap diff' and 'heap log' leave it as it is; 'heap diff'   *)
(* compares the last snapshot against a fresh capture that is not stored;  *)
(* with an empty history both report no history and capture nothing.       *)
(***************************************************************************)
C12_AppendOnly == [][C12_Step]_vars /\ []C12_State

\* 'heap diff' after two labels with an allocation in between
C12_Witness ==
    /\ cmd.name = "diff" /\ Len(snapshots) = 2
    /\ snapshots[1].all_usage = {} /\ snapshots[2].all_usage # {}
    /\ diff # NoDiff

(***************************************************************************)
(* heap/query.py: the filter expressions and Query.                        *)
(*                                                                         *)
(* A Python value is [t, v]: an int or a bool (a bool is the int 0 or 1),  *)
(* or a str, whose v is its rank in Strs, the strings in use in ascending  *)
(* order.  Comparisons follow Python 2: a number orders below every str.   *)
(***************************************************************************)
Strs == <<"", "dict", "python", "str">>
Rank(str) == CHOOSE k \in DOMAIN Strs : Strs[k] = str
IntV(n) == [t |-> "int", v |-> n]
StrV(str) == [t |-> "str", v |-> Rank(str)]
BoolV(b) == [t |-> "bool", v |-> IF b THEN 1 ELSE 0]
\* the evaluation raised AttributeError
AttributeError == [t |-> "AttributeError", v |-> 0]

IsNum(val) == val.t \in {"int", "bool"}
\* bool(val)
truth(val) == IF val.t = "str" THEN Strs[val.v] # "" ELSE val.v # 0
py_lt(a, b) == IF IsNum(a) = IsNum(b) THEN a.v < b.v ELSE IsNum(a)
py_eq(a, b) == IsNum(a) = IsNum(b) /\ a.v = b.v

\* the node classes of heap/query.py
Constant(value) == [node |-> "Constant", value |-> value]
GetAttr(attrname) == [node |-> "GetAttr", attrname |-> attrname]
ComparisonNodes ==
    {"Comparison__le__", "Comparison__lt__", "Comparison__eq__",
     "Comparison__ne__", "Comparison__ge__", "Comparison__gt__"}
Comparison(node, lhs, rhs) == [node |-> node, lhs |-> lhs, rhs |-> rhs]
And(lhs, rhs) == [node |-> "And", lhs |-> lhs, rhs |-> rhs]
Or(lhs, rhs) == [node |-> "Or", lhs |-> lhs, rhs |-> rhs]
Not(inner) == [node |-> "Not", inner |-> inner]

\* Comparison__xx__.cmp_
cmp_(node, lhs, rhs) ==
    CASE node = "Comparison__le__" -> py_lt(lhs, rhs) \/ py_eq(lhs, rhs)
      [] node = "Comparison__lt__" -> py_lt(lhs, rhs)
      [] node = "Comparison__eq__" -> py_eq(lhs, rhs)
      [] node = "Comparison__ne__" -> ~py_eq(lhs, rhs)
      [] node = "Comparison__ge__" -> ~py_lt(lhs, rhs)
      [] OTHER                     -> ~py_lt(lhs, rhs) /\ ~py_eq(lhs, rhs)

\* getattr(u, attrname) on a Usage: start and size are the attributes a
\* query can name that the class has
getattr(u, attrname) ==
    CASE attrname = "start" -> IntV(u.start)
      [] attrname = "size"  -> IntV(u.size)
      [] OTHER              -> AttributeError

\* Expression.eval_ of each node class
RECURSIVE eval_(_, _)
eval_(e, u) ==
    CASE e.node = "Constant" -> e.value
      [] e.node = "GetAttr" -> getattr(u, e.attrname)
      [] e.node \in ComparisonNodes ->
            LET lhs_val == eval_(e.lhs, u)
                rhs_val == eval_(e.rhs, u)
            IN  IF lhs_val = AttributeError THEN AttributeError
                ELSE IF rhs_val = AttributeError THEN AttributeError
                ELSE BoolV(cmp_(e.node, lhs_val, rhs_val))
      [] e.node = "And" ->
            LET lhs_val == eval_(e.lhs, u)
            IN  IF lhs_val = AttributeError THEN AttributeError
                ELSE IF ~truth(lhs_val) THEN BoolV(FALSE)
                ELSE eval_(e.rhs, u)
      [] e.node = "Or" ->
            LET lhs_val == eval_(e.lhs, u)
            IN  IF lhs_val = AttributeError THEN AttributeError
                ELSE IF truth(lhs_val) THEN BoolV(TRUE)
                ELSE eval_(e.rhs, u)
      [] e.node = "Not" ->
            LET inner == eval_(e.inner, u)
            IN  IF inner = AttributeError THEN AttributeError
                ELSE BoolV(~truth(inner))
      [] OTHER ->
            \* an object of another class has no eval_ method
            AttributeError

\* an exception other than ParserError, raised in the function "at"
Raise(exc, at) == [exc |-> exc, at |-> at, pos |-> 0, value |-> <<>>]

\* hexdump_as_bytes(addr, NUM_HEXDUMP_BYTES): the bytes that lie at addr
hexdump_as_bytes(addr) == <<"bytes at", addr>>

\* the column headings of the table of do_query
Columns == {"Start", "End", "Domain", "Kind", "Detail", "Hexdump"}

\* the row do_query adds for a selected record, after ensure_hexdump and
\* ensure_category
Row(u) ==
    [Start |-> u.start, End |-> u.start + u.size - 1,
     Domain |-> u.cat.domain, Kind |-> u.cat.kind, Detail |-> u.cat.detail,
     Hexdump |-> hexdump_as_bytes(u.start)]

\* the records iter_usage can yield at position i of the inventory; cat is
\* the Category that categorize computes for the record
QRecs(i) ==
    [start : {i * Step}, size : {Step, 2 * Step},
     cat : [domain : {"python"}, kind : {"str", "dict"}, detail : {""}]]
Inventories ==
    UNION {{inv \in [1..n -> UNION {QRecs(i) : i \in 1..n}] :
                \A i \in 1..n : inv[i] \in QRecs(i)} : n \in 0..MaxInv}

\* the filter expressions the checks run: comparisons of an attribute with
\* a constant, and one connective over them
AttrNames == {"size", "kind"}
Constants == {IntV(2 * Step), StrV("str")}
Atoms ==
    {Comparison(node, GetAttr(a), Constant(c)) :
        node \in ComparisonNodes, a \in AttrNames, c \in Constants}
    \cup {Constant(BoolV(TRUE))}
Exprs ==
    Atoms \cup {Not(x) : x \in Atoms}
          \cup {And(x, y) : x \in Atoms, y \in Atoms}
          \cup {Or(x, y) : x \in Atoms, y \in Atoms}

EvalInit ==
    /\ qfilter \in Exprs
    /\ inventory \in Inventories
    /\ qpos = 1 /\ selected = <<>> /\ raised = NoError /\ qpc = "query"
    /\ qtext = <<>> /\ lexpos = 0 /\ la = NoTok /\ stack = <<>>
    /\ illegal = <<>>
    /\ usage = <<>> /\ visited = {} /\ calls = <<>>
    /\ PassIdle /\ WalkIdle /\ HistIdle /\ SizesIdle /\ CatIdle /\ LateIdle

\* one turn of "for u in Query(filter_)" in do_query: Query.__iter__
\* evaluates the filter on the next record and do_query adds its row
QueryStep ==
    /\ qpc = "query" /\ qpos <= Len(inventory)
    /\ LET u == inventory[qpos]
           val == eval_(qfilter, u)
       IN  IF val = AttributeError
           THEN /\ raised' = Raise("AttributeError", "eval_")
                /\ qpc' = "uncaught"
                /\ UNCHANGED <<qpos, selected>>
           ELSE /\ selected' = IF truth(val) THEN Append(selected, Row(u))
                                ELSE selected
                /\ qpos' = qpos + 1
                /\ UNCHANGED <<raised, qpc>>
    /\ UNCHANGED <<qtext, lexpos, la, stack, illegal, qfilter, inventory>>
    /\ UNCHANGED <<setVars, passVars, walkVars, histVars, sizesVars,
                 catVars, lateVars>>

\* iter_usage is exhausted: do_query writes the table
QueryEnd ==
    /\ qpc = "query" /\ qpos > Len(inventory)
    /\ qpc' = "done"
    /\ UNCHANGED <<qtext, lexpos, la, stack, illegal, qfilter, inventory,
                   qpos, selected, raised>>
    /\ UNCHANGED <<setVars, passVars, walkVars, histVars, sizesVars,
                 catVars, lateVars>>

EvalNext == QueryStep \/ QueryEnd

EvalSpec == EvalInit /\ [][EvalNext]_vars

\* the value the attribute has by the query language: start and addr are
\* the address, size the size, domain, kind and detail the fields of the
\* record's category
AttrValue(u, attrname) ==
    CASE attrname \in {"start", "addr"} -> IntV(u.start)
      [] attrname = "size"   -> IntV(u.size)
      [] attrname = "domain" -> StrV(u.cat.domain)
      [] attrname = "kind"   -> StrV(u.cat.kind)
      [] OTHER               -> StrV(u.cat.detail)

\* the expression is true of the record
RECURSIVE Holds(_, _)
Holds(e, u) ==
    CASE e.node = "Constant" -> truth(e.value)
      [] e.node \in ComparisonNodes ->
            cmp_(e.node, AttrValue(u, e.lhs.attrname), e.rhs.value)
      [] e.node = "And" -> Holds(e.lhs, u) /\ Holds(e.rhs, u)
      [] e.node = "Or"  -> Holds(e.lhs, u) \/ Holds(e.rhs, u)
      [] OTHER          -> ~Holds(e.inner, u)

\* the records of the inventory the expression is true of, in order
Matching(e) == SelectSeq(inventory, LAMBDA u : Holds(e, u))

(***************************************************************************)
(* C13: for every filter expression and every inventory the query yields   *)
(* exactly the records the expression is true of, each once and in         *)
(* inventory order.                                                        *)
(***************************************************************************)
C13_Selects ==
    /\ raised = NoError
    /\ qpc = "done" =>
           selected = [i \in DOMAIN Matching(qfilter) |->
                           Row(Matching(qfilter)[i])]

(***************************************************************************)
(* C26: on a record fresh from iter_usage (no category yet), GetAttr for   *)
(* domain, kind or detail gives that field of the category computed for    *)
(* the record, and GetAttr for addr, start or size gives the record's      *)
(* address or size; And and Or do not evaluate their right operand when    *)
(* the left one decides, so a right operand that needs the category is     *)
(* not evaluated for a record the left operand of And rejects.             *)
(***************************************************************************)
C26_GetAttr ==
    \A i \in DOMAIN inventory :
        LET u == inventory[i]
        IN  (qpc \in {"done", "uncaught"} /\ i <= qpos) =>
            /\ \A a \in {"domain", "kind", "detail", "addr", "start", "size"} :
                   eval_(GetAttr(a), u) = AttrValue(u, a)
            /\ \A y \in Atoms :
                   /\ eval_(And(Constant(BoolV(FALSE)), y), u) = BoolV(FALSE)
                   /\ eval_(Or(Constant(BoolV(TRUE)), y), u) = BoolV(TRUE)

(***************************************************************************)
(* heap/parser.py: the tokenizer.                                          *)
(*                                                                         *)
(* The query text (lexer.lexdata) is a sequence of characters; lexpos      *)
(* counts from 0, so the character at lexpos p is text[p + 1].  A str is   *)
(* [node |-> "str", s |-> its characters], a long is [node |-> "long",     *)
(* n |-> its value].                                                       *)
(***************************************************************************)
LowerCase ==
    <<"a", "b", "c", "d", "e", "f", "g", "h", "i", "j", "k", "l", "m",
      "n", "o", "p", "q", "r", "s", "t", "u", "v", "w", "x", "y", "z">>
UpperCase ==
    <<"A", "B", "C", "D", "E", "F", "G", "H", "I", "J", "K", "L", "M",
      "N", "O", "P", "Q", "R", "S", "T", "U", "V", "W", "X", "Y", "Z">>
Digits == <<"0", "1", "2", "3", "4", "5", "6", "7", "8", "9">>
Range(f) == {f[i] : i \in DOMAIN f}
\* [a-zA-Z_] and [a-zA-Z_0-9]
IdStart == Range(LowerCase) \cup Range(UpperCase) \cup {"_"}
IdChar == IdStart \cup Range(Digits)
\* [0-9a-fA-F]
HexChar ==
    Range(Digits) \cup {LowerCase[i] : i \in 1..6}
                  \cup {UpperCase[i] : i \in 1..6}

Str(chars) == [node |-> "str", s |-> chars]
Long(n) == [node |-> "long", n |-> n]

\* str.upper()
upper(chars) ==
    [i \in DOMAIN chars |->
        IF \E k \in DOMAIN LowerCase : LowerCase[k] = chars[i]
        THEN UpperCase[CHOOSE k \in DOMAIN LowerCase :
                           LowerCase[k] = chars[i]]
        ELSE chars[i]]

\* the value of one digit of a number
DigitValue(c) ==
    IF c \in Range(Digits)
    THEN (CHOOSE k \in DOMAIN Digits : Digits[k] = c) - 1
    ELSE IF c \in Range(LowerCase)
    THEN 9 + (CHOOSE k \in DOMAIN LowerCase : LowerCase[k] = c)
    ELSE 9 + (CHOOSE k \in DOMAIN UpperCase : UpperCase[k] = c)

\* long(digits, base)
RECURSIVE long(_, _)
long(digits, base) ==
    IF digits = <<>> THEN 0
    ELSE long(SubSeq(digits, 1, Len(digits) - 1), base) * base
         + DigitValue(digits[Len(digits)])

\* the end of the longest run of characters of the class from position p
RECURSIVE RunEnd(_, _, _)
RunEnd(text, p, class) ==
    IF p < Len(text) /\ text[p + 1] \in class
    THEN RunEnd(text, p + 1, class)
    ELSE p

\* text[p:q]
Slice(text, p, q) == SubSeq(text, p + 1, q)
\* the text has the characters of lit at position p
At(text, p, lit) ==
    p + Len(lit) <= Len(text) /\ Slice(text, p, p + Len(lit)) = lit

reserved == {<<"A", "N", "D">>, <<"O", "R">>, <<"N", "O", "T">>}
\* the token type of a reserved word
TypeOf(word) ==
    CASE word = <<"A", "N", "D">> -> "AND"
      [] word = <<"O", "R">>      -> "OR"
      [] OTHER                    -> "NOT"

Token(type, value, start) == [type |-> type, value |-> value, lexpos |-> start]
\* what yacc sees at the end of the input, where lexer.token() is None
EndTok == [type |-> "$end"]

\* the end of the match of each token rule at position p; p if the rule
\* does not match there
EndID(text, p) ==
    IF p < Len(text) /\ text[p + 1] \in IdStart
    THEN RunEnd(text, p, IdChar) ELSE p
\* r'<=|<|==|=|!=|>=|>': the first alternative that matches
EndCOMPARISON(text, p) ==
    CASE At(text, p, <<"<", "=">>) -> p + 2
      [] At(text, p, <<"<">>)      -> p + 1
      [] At(text, p, <<"=", "=">>) -> p + 2
      [] At(text, p, <<"=">>)      -> p + 1
      [] At(text, p, <<"!", "=">>) -> p + 2
      [] At(text, p, <<">", "=">>) -> p + 2
      [] At(text, p, <<">">>)      -> p + 1
      [] OTHER                     -> p
\* r'(0x[0-9a-fA-F]+|\d+)'
EndLITERAL_NUMBER(text, p) ==
    IF At(text, p, <<"0", "x">>) /\ RunEnd(text, p + 2, HexChar) > p + 2
    THEN RunEnd(text, p + 2, HexChar)
    ELSE RunEnd(text, p, Range(Digits))
\* r'"([^"]*)"'
EndLITERAL_STRING(text, p) ==
    IF At(text, p, <<"\"">>)
    THEN LET q == CHOOSE q \in (p + 1)..Len(text) :
                      /\ q = Len(text) \/ text[q + 1] = "\""
                      /\ \A k \in (p + 1)..(q - 1) : text[k + 1] # "\""
         IN  IF q < Len(text) THEN q + 1 ELSE p
    ELSE p

t_ID(text, p) ==
    LET value == Slice(text, p, EndID(text, p))
    IN  IF upper(value) \in reserved
        THEN Token(TypeOf(upper(value)), Str(value), p)
        ELSE Token("ID", Str(value), p)
t_COMPARISON(text, p) ==
    Token("COMPARISON", Str(Slice(text, p, EndCOMPARISON(text, p))), p)
t_LITERAL_NUMBER(text, p) ==
    LET value == Slice(text, p, EndLITERAL_NUMBER(text, p))
    IN  IF At(value, 0, <<"0", "x">>)
        THEN Token("LITERAL_NUMBER",
                   Long(long(Slice(value, 2, Len(value)), 16)), p)
        ELSE Token("LITERAL_NUMBER", Long(long(value, 10)), p)
t_LITERAL_STRING(text, p) ==
    LET value == Slice(text, p, EndLITERAL_STRING(text, p))
    IN  \* drop the quotes
        Token("LITERAL_STRING", Str(Slice(value, 1, Len(value) - 1)), p)

t_ignore == {" ", "\t"}

\* lexer.token() from position p: the rules are tried in the order of the
\* master regular expression (the functions in the order of definition,
\* then the strings); t_error prints the character no rule matches
\* and skips it, and the scan goes on.  The result is the token, the new
\* lexpos and the characters printed as illegal.
RECURSIVE token(_, _, _)
token(text, p, printed) ==
    IF p >= Len(text)
        THEN [tok |-> EndTok, lexpos |-> p, illegal |-> printed]
    ELSE IF text[p + 1] \in t_ignore
        THEN token(text, p + 1, printed)
    ELSE IF EndID(text, p) > p
        THEN [tok |-> t_ID(text, p), lexpos |-> EndID(text, p),
              illegal |-> printed]
    ELSE IF EndCOMPARISON(text, p) > p
        THEN [tok |-> t_COMPARISON(text, p),
              lexpos |-> EndCOMPARISON(text, p), illegal |-> printed]
    ELSE IF EndLITERAL_NUMBER(text, p) > p
        THEN [tok |-> t_LITERAL_NUMBER(text, p),
              lexpos |-> EndLITERAL_NUMBER(text, p), illegal |-> printed]
    ELSE IF EndLITERAL_STRING(text, p) > p
        THEN [tok |-> t_LITERAL_STRING(text, p),
              lexpos |-> EndLITERAL_STRING(text, p), illegal |-> printed]
    ELSE IF text[p + 1] = "("
        THEN [tok |-> Token("LPAREN", Str(<<"(">>), p), lexpos |-> p + 1,
              illegal |-> printed]
    ELSE IF text[p + 1] = ")"
        THEN [tok |-> Token("RPAREN", Str(<<")">>), p), lexpos |-> p + 1,
              illegal |-> printed]
    ELSE token(text, p + 1, Append(printed, text[p + 1]))

(***************************************************************************)
(* heap/parser.py: the grammar, and 'heap select' from the command line    *)
(* to the table.                                                           *)
(***************************************************************************)
\* the node classes of heap/parser.py, which are what its rules build
ParserComparison(lhs, op, rhs) ==
    [node |-> "parser.Comparison", lhs |-> lhs, op |-> op, rhs |-> rhs]
ParserAnd(a, b) == [node |-> "parser.And", a |-> a, b |-> b]
ParserOr(a, b) == [node |-> "parser.Or", a |-> a, b |-> b]
ParserNot(a) == [node |-> "parser.Not", a |-> a]

\* precedence: a later line of the table binds tighter
precedence(type) ==
    CASE type \in {"AND", "OR"} -> 1
      [] type = "NOT"           -> 2
      [] OTHER                  -> 3

BinaryOps == {"COMPARISON", "AND", "OR"}
\* the tokens an expression can start with
Starters == {"ID", "LITERAL_NUMBER", "LITERAL_STRING", "NOT", "LPAREN"}

Symbol(sym, val) == [sym |-> sym, val |-> val]
\* the grammar symbol k places below the top of the parser's stack
Sym(stk, k) == IF Len(stk) > k THEN stk[Len(stk) - k].sym ELSE "$empty"

\* what the tables yacc builds from the rules and the precedence do with
\* the lookahead token: a conflict between a finished rule and a shift goes
\* to the shift when the token binds tighter than the rule, and to the
\* reduction otherwise (every operator is 'left')
Action(stk, tok) ==
    CASE Sym(stk, 0) \in {"ID", "LITERAL_NUMBER", "LITERAL_STRING", "RPAREN"} ->
            "reduce"
      [] Sym(stk, 0) = "expression" /\ Sym(stk, 1) \in BinaryOps ->
            IF tok.type \in BinaryOps
            THEN IF precedence(tok.type) > precedence(Sym(stk, 1))
                 THEN "shift" ELSE "reduce"
            ELSE IF tok.type \in {"RPAREN", "$end"} THEN "reduce"
            ELSE "error"
      [] Sym(stk, 0) = "expression" /\ Sym(stk, 1) = "NOT" ->
            IF tok.type = "COMPARISON" THEN "shift"
            ELSE IF tok.type \in {"AND", "OR", "RPAREN", "$end"} THEN "reduce"
            ELSE "error"
      [] Sym(stk, 0) = "expression" /\ Sym(stk, 1) = "LPAREN" ->
            IF tok.type \in BinaryOps \cup {"RPAREN"} THEN "shift"
            ELSE "error"
      [] Sym(stk, 0) = "expression" /\ Sym(stk, 1) = "$empty" ->
            IF tok.type \in BinaryOps THEN "shift"
            ELSE IF tok.type = "$end" THEN "accept"
            ELSE "error"
      [] OTHER ->
            IF tok.type \in Starters THEN "shift" ELSE "error"

Pop(stk, n) == SubSeq(stk, 1, Len(stk) - n)
Val(stk, k) == stk[Len(stk) - k].val

\* the stack after the rule that is finished on top of it has run
Reduced(stk) ==
    CASE Sym(stk, 0) \in {"ID", "LITERAL_NUMBER", "LITERAL_STRING"} ->
            \* p_expression_name, p_expression_number, p_expression_string
            Append(Pop(stk, 1), Symbol("expression", Val(stk, 0)))
      [] Sym(stk, 0) = "RPAREN" ->
            \* p_expression_group
            Append(Pop(stk, 3), Symbol("expression", Val(stk, 1)))
      [] Sym(stk, 1) = "COMPARISON" ->
            \* p_comparison
            Append(Pop(stk, 3),
                   Symbol("expression",
                          ParserComparison(Val(stk, 2), Val(stk, 1),
                                           Val(stk, 0))))
      [] Sym(stk, 1) = "AND" ->
            \* p_and
            Append(Pop(stk, 3),
                   Symbol("expression", ParserAnd(Val(stk, 2), Val(stk, 0))))
      [] Sym(stk, 1) = "OR" ->
            \* p_or
            Append(Pop(stk, 3),
                   Symbol("expression", ParserOr(Val(stk, 2), Val(stk, 0))))
      [] OTHER ->
            \* p_not
            Append(Pop(stk, 2), Symbol("expression", ParserNot(Val(stk, 0))))

ParserError(input_, pos, value) ==
    [exc |-> "ParserError", at |-> "p_error", pos |-> pos, value |-> value]

\* the third line of ParserError.__str__: ' ' * pos + '^' * len(value)
Underline(e) ==
    [i \in 1..(e.pos + Len(e.value)) |-> IF i <= e.pos THEN " " ELSE "^"]

\* p_error(t), with the lexer at position p of the text: the exception it
\* ends with.  At the end of the input t is None, which has no attribute
\* lexer; a long has no len().
p_error(t, text, p) ==
    IF t = EndTok THEN Raise("AttributeError", "p_error")
    ELSE IF t.value.node = "long" THEN Raise("TypeError", "p_error")
    ELSE ParserError(text, p - Len(t.value.s), t.value.s)

\* the words query texts are made of
CoreWords ==
    {<<"s", "i", "z", "e">>, <<"=">>, <<"a", "n", "d">>, <<"o", "r">>,
     <<"n", "o", "t">>}
Words ==
    CoreWords \cup
    {<<"f", "o", "o">>, <<"A", "n", "d">>, <<">", "=">>, <<"1", "6">>,
     <<"0", "x", "1", "F">>, <<"\"", "s", "t", "r", "\"">>, <<"(">>, <<")">>,
     <<"$">>}

\* ' '.join(ws)
RECURSIVE Join(_)
Join(ws) ==
    IF ws = <<>> THEN <<>>
    ELSE IF Len(ws) = 1 THEN ws[1]
    ELSE ws[1] \o <<" ">> \o Join(Tail(ws))

\* the query texts: up to MaxWords of the core words, and up to
\* MaxWords - 2 of all the words
WordSeqs ==
    UNION {[1..n -> CoreWords] : n \in 0..MaxWords}
    \cup UNION {[1..n -> Words] : n \in 0..(MaxWords - 2)}
\* a text after 'size > 10000 and not domain="uncategorized"'
ExampleText ==
    Join(<<<<"s", "i", "z", "e">>, <<">", "=">>, <<"1", "6">>,
           <<"a", "n", "d">>, <<"n", "o", "t">>, <<"s", "i", "z", "e">>,
           <<"=">>, <<"\"", "s", "t", "r", "\"">>>>)
Texts == {Join(ws) : ws \in WordSeqs} \cup {ExampleText}

\* the inventory a query with a text runs on
SelectInventories ==
    {inv \in Inventories :
        /\ Len(inv) = MaxInv
        /\ \A i \in DOMAIN inv : inv[i].size = Step /\ inv[i].cat.kind = "str"}

SelectInit ==
    /\ qtext \in Texts
    /\ inventory \in (IF qtext = <<>> THEN Inventories ELSE SelectInventories)
    /\ lexpos = 0 /\ la = NoTok /\ stack = <<>> /\ illegal = <<>>
    /\ qfilter = NoFilter /\ qpos = 1 /\ selected = <<>>
    /\ raised = NoError /\ qpc = "invoke"
    /\ usage = <<>> /\ visited = {} /\ calls = <<>>
    /\ PassIdle /\ WalkIdle /\ HistIdle /\ SizesIdle /\ CatIdle /\ LateIdle

\* do_query without its branch for the empty text
Invoke_parse ==
    /\ qpc = "invoke"
    /\ qpc' = "parse"
    /\ UNCHANGED <<qtext, lexpos, la, stack, illegal, qfilter, inventory,
                   qpos, selected, raised>>
    /\ UNCHANGED <<setVars, passVars, walkVars, histVars, sizesVars,
                 catVars, lateVars>>

\* HeapSelect.invoke calls do_query(args), which takes Constant(True) for
\* the empty text and calls parse_query for any other
Invoke ==
    /\ qpc = "invoke"
    /\ IF qtext = <<>>
       THEN qfilter' = Constant(BoolV(TRUE)) /\ qpc' = "query"
       ELSE qpc' = "parse" /\ UNCHANGED qfilter
    /\ UNCHANGED <<qtext, lexpos, la, stack, illegal, inventory, qpos,
                   selected, raised>>
    /\ UNCHANGED <<setVars, passVars, walkVars, histVars, sizesVars,
                 catVars, lateVars>>

\* the parser asks the lexer for the lookahead token
Lex ==
    /\ qpc = "parse" /\ la = NoTok
    /\ LET r == token(qtext, lexpos, illegal)
       IN  la' = r.tok /\ lexpos' = r.lexpos /\ illegal' = r.illegal
    /\ UNCHANGED <<qtext, stack, qfilter, inventory, qpos, selected, raised,
                   qpc>>
    /\ UNCHANGED <<setVars, passVars, walkVars, histVars, sizesVars,
                 catVars, lateVars>>

Shift ==
    /\ qpc = "parse" /\ la # NoTok /\ Action(stack, la) = "shift"
    /\ stack' = Append(stack, Symbol(la.type, la.value))
    /\ la' = NoTok
    /\ UNCHANGED <<qtext, lexpos, illegal, qfilter, inventory, qpos,
                   selected, raised, qpc>>
    /\ UNCHANGED <<setVars, passVars, walkVars, histVars, sizesVars,
                 catVars, lateVars>>

Reduce ==
    /\ qpc = "parse" /\ la # NoTok /\ Action(stack, la) = "reduce"
    /\ stack' = Reduced(stack)
    /\ UNCHANGED <<qtext, lexpos, la, illegal, qfilter, inventory, qpos,
                   selected, raised, qpc>>
    /\ UNCHANGED <<setVars, passVars, walkVars, histVars, sizesVars,
                 catVars, lateVars>>

\* parse_query returns the value of the start symbol to do_query
Accept ==
    /\ qpc = "parse" /\ la # NoTok /\ Action(stack, la) = "accept"
    /\ qfilter' = Val(stack, 0)
    /\ qpc' = "query"
    /\ UNCHANGED <<qtext, lexpos, la, stack, illegal, inventory, qpos,
                   selected, raised>>
    /\ UNCHANGED <<setVars, passVars, walkVars, histVars, sizesVars,
                 catVars, lateVars>>

\* the tables have no entry for the lookahead token: yacc calls p_error,
\* whose exception leaves parse_query and do_query; HeapSelect.invoke
\* catches a ParserError and prints it
SyntaxError ==
    /\ qpc = "parse" /\ la # NoTok /\ Action(stack, la) = "error"
    /\ raised' = p_error(la, qtext, lexpos)
    /\ qpc' = IF raised'.exc = "ParserError" THEN "reported" ELSE "uncaught"
    /\ UNCHANGED <<qtext, lexpos, la, stack, illegal, qfilter, inventory,
                   qpos, selected>>
    /\ UNCHANGED <<setVars, passVars, walkVars, histVars, sizesVars,
                 catVars, lateVars>>

SelectNext ==
    \/ Invoke
    \/ Lex
    \/ Shift
    \/ Reduce
    \/ Accept
    \/ SyntaxError
    \/ QueryStep
    \/ QueryEnd

SelectSpec == SelectInit /\ [][SelectNext]_vars

\* test_lexer: the tokens of the text from position p on
RECURSIVE test_lexer(_, _)
test_lexer(text, p) ==
    LET r == token(text, p, <<>>)
    IN  IF r.tok = EndTok THEN <<>>
        ELSE <<r.tok>> \o test_lexer(text, r.lexpos)

(***************************************************************************)
(* C14: when the token sequence is malformed, whatever the offending token *)
(* is (an identifier, a number, a string literal or the end of the input), *)
(* parsing fails with a ParserError whose value is the offending token's   *)
(* text and whose position is the token's starting column in the input, so *)
(* that the carets of the message lie beneath the token.                   *)
(***************************************************************************)
C14_ErrorNamesToken ==
    raised.at = "p_error" =>
        /\ raised.exc = "ParserError"
        /\ la # EndTok =>
              /\ raised.pos = la.lexpos
              /\ raised.value = Slice(qtext, la.lexpos, lexpos)
              /\ Underline(raised) =
                     [i \in 1..lexpos |-> IF i <= la.lexpos THEN " " ELSE "^"]

\* the attribute names a query may use
AllowList ==
    {<<"d", "o", "m", "a", "i", "n">>, <<"k", "i", "n", "d">>,
     <<"d", "e", "t", "a", "i", "l">>, <<"a", "d", "d", "r">>,
     <<"s", "t", "a", "r", "t">>, <<"s", "i", "z", "e">>}

(***************************************************************************)
(* C15: a query that uses a bare identifier outside the allow-list is      *)
(* rejected while parsing: parse_query hands no filter to do_query and no  *)
(* Usage record is evaluated.                                              *)
(***************************************************************************)
C15_UnknownAttributeRejected ==
    (\E i \in DOMAIN test_lexer(qtext, 0) :
        /\ test_lexer(qtext, 0)[i].type = "ID"
        /\ test_lexer(qtext, 0)[i].value.s \notin AllowList)
    => qfilter = NoFilter /\ qpc \notin {"query", "done"}

(***************************************************************************)
(* C16: when the query text has a character that no token rule matches,    *)
(* the query is rejected: no filter expression is produced from the rest   *)
(* of the text and no Usage record is evaluated or printed.                *)
(***************************************************************************)
C16_IllegalCharacterRejects ==
    illegal # <<>> =>
        /\ qfilter = NoFilter
        /\ qpc \notin {"query", "done"}
        /\ selected = <<>>

SizeComparison(op, literal) ==
    Comparison(CASE op = <<"=">> -> "Comparison__eq__"
                 [] OTHER       -> "Comparison__ge__",
               GetAttr("size"),
               Constant(CASE literal = <<"1", "6">> -> IntV(16)
                          [] literal = <<"0", "x", "1", "F">> -> IntV(31)
                          [] OTHER -> StrV("str")))

(***************************************************************************)
(* C18: parse_query turns 'attr OP literal' into the comparison node of    *)
(* the operator over GetAttr(attr) and Constant(literal), a decimal or     *)
(* 0x-prefixed literal being a number and a quoted one a string without    *)
(* its quotes; NOT binds looser than a comparison and tighter than AND,    *)
(* so 'size >= 16 and not size = "str"' is And(size >= 16,                 *)
(* Not(size = "str")).                                                     *)
(***************************************************************************)
C18_ParsesToQueryNodes ==
    qpc \notin {"invoke", "parse"} =>
        /\ \A op \in {<<"=">>, <<">", "=">>} :
           \A literal \in {<<"1", "6">>, <<"0", "x", "1", "F">>,
                           <<"\"", "s", "t", "r", "\"">>} :
              qtext = Join(<<<<"s", "i", "z", "e">>, op, literal>>)
              => qfilter = SizeComparison(op, literal)
        /\ qtext = ExampleText
           => qfilter = And(SizeComparison(<<">", "=">>, <<"1", "6">>),
                            Not(SizeComparison(<<"=">>,
                                               <<"\"", "s", "t", "r", "\"">>)))

(***************************************************************************)
(* heap/commands.py: 'heap sizes', the consumer of iter_chunks that counts *)
(* the chunks in use by chunk size.                                        *)
(***************************************************************************)
\* str(n) of an int, as characters
RECURSIVE str(_)
str(n) ==
    IF n < 0 THEN <<"-">> \o str(0 - n)
    ELSE IF n < 10 THEN <<Digits[n + 1]>>
    ELSE str(n \div 10) \o <<Digits[(n % 10) + 1]>>

\* the loop of fmt_size on the characters that are left
RECURSIVE Grouped(_)
Grouped(digits) ==
    IF Len(digits) > 3
    THEN Grouped(SubSeq(digits, 1, Len(digits) - 3)) \o <<",">>
         \o SubSeq(digits, Len(digits) - 2, Len(digits))
    ELSE digits
fmt_size(size) == Grouped(str(size))

SizesRow(size) ==
    [size |-> fmt_size(size), num |-> chunks_by_size[size],
     allocated |-> fmt_size(chunks_by_size[size] * size)]
TotalsRow ==
    [size |-> <<"T", "O", "T", "A", "L", "S">>, num |-> num_chunks,
     allocated |-> fmt_size(total_size)]

\* sorted(chunks_by_size.keys(), cmp): the keys by falling allocated size,
\* keys of equal allocated size in the order the dict happens to give
SortedKeys ==
    LET keys == DOMAIN chunks_by_size
        n == Cardinality(keys)
    IN  {ks \in [1..n -> keys] :
            /\ \A i, j \in 1..n : i # j => ks[i] # ks[j]
            /\ \A i, j \in 1..n :
                   i < j => chunks_by_size[ks[i]] * ks[i]
                            >= chunks_by_size[ks[j]] * ks[j]}

SizesInit ==
    /\ walkPc = "mmap"
    /\ mode = "heap sizes"
    /\ lay \in [sbrk_base : {0, BrkBase}, top : BrkAddrs,
                mmap : {LowMap, HighMap}, arena : {0}]
    /\ msize = [a \in Cells |-> UnreadSize]
    /\ chunk = 0 /\ wturn = 0 /\ seen = <<>> /\ out = <<>>
    /\ usage = <<>> /\ visited = {} /\ calls = <<>>
    /\ PassIdle /\ HistIdle /\ QueryIdle /\ SizesIdle /\ CatIdle /\ LateIdle

\* one turn of the while loop of iter_sbrk_chunks with the loop body of
\* HeapSizes.invoke: v is the size field of the current chunk, which
\* is_inuse reads first, w the one of the chunk after it
SbrkSizes ==
    /\ walkPc = "sbrk_walk" /\ mode = "heap sizes"
    /\ chunk # lay.top
    /\ \E v \in Reading(msize, chunk) :
        LET m1 == Store(msize, chunk, v)
        IN  IF v = Unmapped
            THEN \* has_IS_MMAPPED raises in HeapSizes.invoke
                 /\ Yield(chunk, "brk", "failed", <<>>)
                 /\ msize' = m1
                 /\ walkPc' = "raised"
                 /\ UNCHANGED <<chunk, wturn, sizesVars>>
            ELSE IF has_flag(v, IS_MMAPPED)
            THEN /\ Yield(chunk, "brk", "used", <<>>)
                 /\ Count(chunksize(v))
                 /\ msize' = m1
                 /\ chunk' = next_chunk(chunk, v)
                 /\ wturn' = 1 - wturn
                 /\ UNCHANGED walkPc
            ELSE \E w \in Reading(m1, next_chunk(chunk, v)) :
                 /\ msize' = Store(m1, next_chunk(chunk, v), w)
                 /\ IF w = Unmapped
                    THEN \* nc.has_PREV_INUSE() raises in HeapSizes.invoke
                         /\ Yield(chunk, "brk", "failed", <<>>)
                         /\ walkPc' = "raised"
                         /\ UNCHANGED <<chunk, wturn, sizesVars>>
                    ELSE /\ IF is_inuse(v, w)
                            THEN /\ Yield(chunk, "brk", "used", <<>>)
                                 /\ Count(chunksize(v))
                            ELSE /\ Yield(chunk, "brk", "free", <<>>)
                                 /\ UNCHANGED sizesVars
                         /\ chunk' = next_chunk(chunk, v)
                         /\ wturn' = 1 - wturn
                         /\ UNCHANGED walkPc
    /\ UNCHANGED <<mode, lay>>
    /\ UNCHANGED <<setVars, passVars, histVars, queryVars, catVars, lateVars>>

\* KeyboardInterrupt while HeapSizes.invoke waits for the next chunk of
\* iter_chunks: the generators are unwound and the except clause passes
\* (the user interrupts before the log of the walk is full)
SizesInterrupt ==
    /\ walkPc \in {"mmap", "mmap_walk", "sbrk", "sbrk_walk"}
    /\ mode = "heap sizes"
    /\ Len(seen) < MaxLog
    /\ intr' = TRUE
    /\ walkPc' = "interrupted"
    /\ UNCHANGED <<mode, lay, msize, chunk, wturn, seen, out>>
    /\ UNCHANGED <<inferior, cached_usage_list, cached_reg_state, hpc, scan,
                   tally, report, hcall>>
    /\ UNCHANGED <<setVars, passVars, histVars, queryVars, sizesVars,
                   catVars, restVars>>

\* the try is over: HeapSizes.invoke adds a row for each size, the TOTALS
\* row, and writes the table
SizesReport ==
    /\ walkPc \in {"done", "interrupted"} /\ mode = "heap sizes"
    /\ \E ks \in SortedKeys :
        table' = [i \in 1..(Len(ks) + 1) |->
                     IF i <= Len(ks) THEN SizesRow(ks[i]) ELSE TotalsRow]
    /\ walkPc' = "reported"
    /\ UNCHANGED <<mode, lay, msize, chunk, wturn, seen, out>>
    /\ UNCHANGED <<chunks_by_size, num_chunks, total_size>>
    /\ UNCHANGED <<setVars, passVars, histVars, queryVars, catVars, lateVars>>

SizesNext ==
    \/ MmapRegion
    \/ MmapNext
    \/ SbrkBegin
    \/ SbrkEnd
    \/ SbrkSizes
    \/ SizesInterrupt
    \/ SizesReport

SizesSpec == SizesInit /\ [][SizesNext]_vars

\* the number a cell of the table shows
Shown(cell) == long(SelectSeq(cell, LAMBDA c : c # ","), 10)

\* the chunk at addr is in use
InUse(addr) == has_flag(msize[addr], IS_MMAPPED) \/ NextHasPrevInuse(addr)
\* the log entries of the chunks in use, and of those of one chunk size
ChunksInUse == {i \in DOMAIN seen : InUse(seen[i].addr)}
InUseOfSize(size) ==
    {i \in ChunksInUse : chunksize(msize[seen[i].addr]) = size}

RECURSIVE SumChunkSizes(_)
SumChunkSizes(S) ==
    IF S = {} THEN 0
    ELSE LET i == CHOOSE i \in S : TRUE
         IN  chunksize(msize[seen[i].addr]) + SumChunkSizes(S \ {i})

MemLooks ==
    [py : {"none", "unreadable", "object", "instance", "broken"},
     gtype : {"none", "GtkWidget"},
     vtable : {"none", "Foo"},
     s : {None, "", "hi", "hi!"}]

\* categorize raised RuntimeError
Raised == "RuntimeError"

\* as_python_object(addr): the python object, None, or the exception of the
\* read of gc_refs, which no try block covers
as_python_object(m) ==
    CASE m.py = "none"       -> None
      [] m.py = "unreadable" -> Raised
      [] OTHER               -> m.py

\* PyObjectPtr.categorize and PyInstanceObjectPtr.categorize
pyop_categorize(pyop) ==
    CASE pyop = "object"   -> Category("python", "tp_name", None)
      [] pyop = "instance" -> Category("python", "cl_name", "old-style")
      [] OTHER             -> Raised

\* pypy_categorizer(addr, size)
pypy_categorizer(m, size) == None

\* the rest of categorize from GObject detection on
categorize_tail(m, size, obj) ==
    IF m.gtype # "none"
    THEN [category |-> Category("GType", m.gtype, ""), obj |-> m.gtype]
    ELSE IF m.s # None /\ m.s # "" /\ Len(m.s) > 2
    THEN [category |-> Category("C", "string data", None), obj |-> obj]
    ELSE [category |-> Category("uncategorized", "",
                                ToString(size) \o " bytes"),
          obj |-> obj]

\* categorize(u, usage_set) on memory m: the category it returns, or Raised,
\* and the value of u.obj; C++ detection stands under "if False"
categorize_sniffers(m, size, obj) ==
    LET pyop == as_python_object(m)
    IN  IF pyop = Raised THEN [category |-> Raised, obj |-> obj]
        ELSE IF pyop # None /\ pyop_categorize(pyop) # Raised
        THEN [category |-> pyop_categorize(pyop), obj |-> pyop]
        ELSE IF pypy_categorizer(m, size) # None
        THEN [category |-> pypy_categorizer(m, size),
              obj |-> IF pyop # None THEN pyop ELSE obj]
        ELSE categorize_tail(m, size, IF pyop # None THEN pyop ELSE obj)

CatInit ==
    /\ crec \in [start : {Step}, size : {Step, 2 * Step}, category : {None},
                 obj : {None}]
    /\ mem \in MemLooks
    /\ ncat = 0 /\ cpc = "fresh"
    /\ usage = <<>> /\ visited = {} /\ calls = <<>>
    /\ PassIdle /\ WalkIdle /\ HistIdle /\ QueryIdle /\ SizesIdle /\ LateIdle

\* u.ensure_category()
EnsureCategory ==
    /\ cpc \in {"fresh", "resumed"}
    /\ IF crec.category = None
       THEN LET r == categorize_sniffers(mem, crec.size, crec.obj)
            IN  /\ ncat' = ncat + 1
                /\ IF r.category = Raised
                   THEN /\ crec' = [crec EXCEPT !.obj = r.obj]
                        /\ cpc' = "raised"
                   ELSE /\ crec' = [crec EXCEPT !.category = r.category,
                                                !.obj = r.obj]
                        /\ cpc' = IF cpc = "fresh" THEN "categorized"
                                  ELSE "again"
       ELSE /\ cpc' = IF cpc = "fresh" THEN "categorized" ELSE "again"
            /\ UNCHANGED <<crec, ncat>>
    /\ UNCHANGED mem
    /\ UNCHANGED <<setVars, passVars, walkVars, histVars, queryVars,
                   sizesVars, lateVars>>

\* the inferior runs on and the memory of the record changes
Resume ==
    /\ cpc = "categorized"
    /\ mem' \in MemLooks
    /\ cpc' = "resumed"
    /\ UNCHANGED <<crec, ncat>>
    /\ UNCHANGED <<setVars, passVars, walkVars, histVars, queryVars,
                   sizesVars, lateVars>>

CatNext == EnsureCategory \/ Resume

CatSpec == CatInit /\ [][CatNext]_vars

\* the category of the first sniffer that matches, in the order managed
\* object, foreign type registry, C++ vtable, NUL-terminated string,
\* fallback
FirstMatch(m, size) ==
    CASE m.py = "object"    -> Category("python", "tp_name", None)
      [] m.py = "instance"  -> Category("python", "cl_name", "old-style")
      [] m.gtype # "none"   -> Category("GType", m.gtype, "")
      [] m.vtable # "none"  -> Category("C++", m.vtable, None)
      [] m.s \notin {None, "", "hi"} -> Category("C", "string data", None)
      [] OTHER -> Category("uncategorized", "", ToString(size) \o " bytes")

(***************************************************************************)
(* C20: categorize never fails and returns the category of the first       *)
(* sniffer that matches, in the order managed object, foreign type         *)
(* registry, C++ vtable, NUL-terminated string, fallback ('uncategorized', *)
(* '', '<size> bytes'); a record that has a category is not categorized    *)
(* again.                                                                  *)
(***************************************************************************)
C20_FirstMatchWins ==
    /\ cpc # "raised"
    /\ cpc = "categorized" => crec.category = FirstMatch(mem, crec.size)
    /\ cpc = "again" => ncat = 1

(***************************************************************************)
(* heap/commands.py: 'heap', the report by category, with                  *)
(* lazily_get_usage_list of heap/__init__.py and its cache.                *)
(*                                                                         *)
(* Between two commands the inferior may run: its registers and its        *)
(* allocations change.  The user may interrupt a running command at any    *)
(* point the interpreter checks for signals; the loop body of Heap.invoke  *)
(* is taken in two halves, the sums by size (lines 58-63) and the counts   *)
(* (lines 65-69).  ProgressNotifier stands for the iterator it wraps.      *)
(***************************************************************************)
MaxCmds == 3
RegStates == 1..2

\* bool(x) of a list or None
Truth(list) == Len(list.recs) > 0

\* what categorize_usage_list makes of the record at start address a
HeapCategory(a) ==
    IF a = 1 THEN [domain |-> "python", kind |-> "dict", detail |-> None]
    ELSE [domain |-> "uncategorized", kind |-> "", detail |-> "size bytes"]

\* Usage.category is None
NoCategory == [domain |-> None, kind |-> None, detail |-> None]

\* u.ensure_category()
ensure_category(u) ==
    IF u.category = NoCategory THEN [u EXCEPT !.category = HeapCategory(u.start)]
    ELSE u

HeapInit ==
    /\ inferior \in [regs : RegStates, live : SUBSET HeapAddrs]
    /\ cached_usage_list = NoList /\ cached_reg_state = NoReg
    /\ hpc = "prompt" /\ scan = NoScan /\ tally = NoTally
    /\ report = <<>> /\ intr = FALSE /\ hcall = NoCall
    /\ usage = <<>> /\ visited = {} /\ calls = <<>>
    /\ PassIdle /\ WalkIdle /\ HistIdle /\ QueryIdle /\ SizesIdle /\ CatIdle
    /\ PermIdle /\ PoolIdle /\ FmtIdle

\* Heap.invoke up to its loop, with lazily_get_usage_list up to the scan:
\* the cache is used when both cached values are true and the registers
\* read as they did
lazily_get_usage_list ==
    /\ hpc = "prompt" /\ hcall.n < MaxCmds
    /\ LET reg_state == <<inferior.regs>>
           call == [hcall EXCEPT !.n = @ + 1, !.reg = reg_state,
                                 !.prior = hcall.last,
                                 !.before = [list |-> cached_usage_list,
                                             reg |-> cached_reg_state],
                                 !.gathered = 0, !.at = "none"]
       IN  IF /\ Truth(cached_usage_list) /\ cached_reg_state # NoReg
              /\ reg_state = cached_reg_state
           THEN /\ tally' = [NoTally EXCEPT
                                !.usage_list = cached_usage_list.recs]
                /\ hpc' = "loop"
                /\ hcall' = [call EXCEPT !.scanned = FALSE,
                                         !.returned = TRUE,
                                         !.ret = cached_usage_list.id]
                /\ scan' = NoScan
           ELSE /\ scan' = [reg_state |-> reg_state,
                            usage_list |-> [id |-> hcall.n + 1,
                                            recs |-> <<>>]]
                /\ hpc' = "scan"
                /\ hcall' = [call EXCEPT !.scanned = TRUE,
                                         !.returned = FALSE, !.ret = 0]
                /\ tally' = NoTally
    /\ report' = <<>> /\ intr' = FALSE
    /\ UNCHANGED <<inferior, cached_usage_list, cached_reg_state>>
    /\ UNCHANGED <<setVars, passVars, walkVars, histVars, queryVars,
                   sizesVars, catVars, restVars>>

\* list(iter_usage_with_progress()) takes the next record of iter_usage,
\* or finds it exhausted
ScanNext ==
    /\ hpc = "scan"
    /\ LET got == scan.usage_list.recs
           rest == {a \in inferior.live :
                       \A i \in DOMAIN got : got[i].start < a}
       IN  IF rest = {}
           THEN /\ hpc' = "categorize"
                /\ UNCHANGED <<scan, hcall>>
           ELSE LET a == CHOOSE a \in rest : \A b \in rest : a <= b
                    u == [start |-> a, size |-> SizeOf(a),
                          category |-> NoCategory]
                IN  /\ scan' = [scan EXCEPT
                                   !.usage_list.recs = Append(got, u)]
                    /\ hcall' = [hcall EXCEPT !.gathered = Len(got) + 1]
                    /\ UNCHANGED hpc
    /\ UNCHANGED <<inferior, cached_usage_list, cached_reg_state, tally,
                   report, intr>>
    /\ UNCHANGED <<setVars, passVars, walkVars, histVars, queryVars,
                   sizesVars, catVars, restVars>>

\* categorize_usage_list(usage_list), the update of the cache and the
\* return to Heap.invoke, which copies the list
CacheUpdate ==
    /\ hpc = "categorize"
    /\ LET recs == [i \in DOMAIN scan.usage_list.recs |->
                       ensure_category(scan.usage_list.recs[i])]
           usage_list == [scan.usage_list EXCEPT !.recs = recs]
       IN  /\ cached_usage_list' = usage_list
           /\ cached_reg_state' = scan.reg_state
           /\ tally' = [NoTally EXCEPT !.usage_list = recs]
           /\ hcall' = [hcall EXCEPT !.returned = TRUE,
                                     !.ret = usage_list.id,
                                     !.last = scan.reg_state]
    /\ scan' = NoScan
    /\ hpc' = "loop"
    /\ UNCHANGED <<inferior, report, intr>>
    /\ UNCHANGED <<setVars, passVars, walkVars, histVars, queryVars,
                   sizesVars, catVars, restVars>>

\* the loop body of Heap.invoke, lines 58-63
LoopSize ==
    /\ hpc = "loop" /\ tally.pos < Len(tally.usage_list)
    /\ LET u == ensure_category(tally.usage_list[tally.pos + 1])
           by == tally.total_by_category
       IN  tally' = [tally EXCEPT
                !.usage_list[tally.pos + 1] = u,
                !.total_size = @ + u.size,
                !.total_by_category =
                    IF u.category \in DOMAIN by
                    THEN [by EXCEPT ![u.category] = @ + u.size]
                    ELSE (u.category :> u.size) @@ by]
    /\ hpc' = "loop_count"
    /\ UNCHANGED <<inferior, cached_usage_list, cached_reg_state, scan,
                   report, intr, hcall>>
    /\ UNCHANGED <<setVars, passVars, walkVars, histVars, queryVars,
                   sizesVars, catVars, restVars>>

\* the loop body of Heap.invoke, lines 65-69
LoopCount ==
    /\ hpc = "loop_count"
    /\ LET u == tally.usage_list[tally.pos + 1]
           by == tally.count_by_category
       IN  tally' = [tally EXCEPT
                !.total_count = @ + 1,
                !.count_by_category =
                    IF u.category \in DOMAIN by
                    THEN [by EXCEPT ![u.category] = @ + 1]
                    ELSE (u.category :> 1) @@ by,
                !.pos = @ + 1]
    /\ hpc' = "loop"
    /\ UNCHANGED <<inferior, cached_usage_list, cached_reg_state, scan,
                   report, intr, hcall>>
    /\ UNCHANGED <<setVars, passVars, walkVars, histVars, queryVars,
                   sizesVars, catVars, restVars>>

\* the loop of Heap.invoke is over
LoopDone ==
    /\ hpc = "loop" /\ tally.pos = Len(tally.usage_list)
    /\ hpc' = "table"
    /\ UNCHANGED <<inferior, cached_usage_list, cached_reg_state, scan,
                   tally, report, intr, hcall>>
    /\ UNCHANGED <<setVars, passVars, walkVars, histVars, queryVars,
                   sizesVars, catVars, restVars>>

\* KeyboardInterrupt inside the try of Heap.invoke: the frames of
\* lazily_get_usage_list are unwound, the except clause passes
KeyboardInterrupt ==
    /\ hpc \in {"scan", "categorize", "loop", "loop_count"}
    /\ intr' = TRUE
    /\ hcall' = [hcall EXCEPT !.at = hpc]
    /\ scan' = NoScan
    /\ hpc' = "table"
    /\ UNCHANGED <<inferior, cached_usage_list, cached_reg_state, tally,
                   report>>
    /\ UNCHANGED <<setVars, passVars, walkVars, histVars, queryVars,
                   sizesVars, catVars, restVars>>

\* sorted(total_by_category.keys(), cmp): the categories by falling total
\* size, those of equal size in the order the dict happens to give
HeapSortedKeys ==
    LET by == tally.total_by_category
        keys == DOMAIN by
        n == Cardinality(keys)
    IN  {ks \in [1..n -> keys] :
            /\ \A i, j \in 1..n : i # j => ks[i] # ks[j]
            /\ \A i, j \in 1..n : i < j => by[ks[i]] >= by[ks[j]]}

HeapRow(category) ==
    [domain |-> category.domain, kind |-> category.kind,
     detail |-> IF category.detail = None THEN "" ELSE category.detail,
     count |-> fmt_size(tally.count_by_category[category]),
     size |-> fmt_size(tally.total_by_category[category])]
HeapTotalRow ==
    [domain |-> "", kind |-> "", detail |-> "TOTAL",
     count |-> fmt_size(tally.total_count),
     size |-> fmt_size(tally.total_size)]

\* Heap.invoke after the try: a row for each category, the TOTAL row, and
\* the table is written; count_by_category[category] raises KeyError for a
\* category that has no count
WriteTable ==
    /\ hpc = "table"
    /\ IF DOMAIN tally.total_by_category
              \subseteq DOMAIN tally.count_by_category
       THEN /\ \E ks \in HeapSortedKeys :
                report' = [i \in 1..(Len(ks) + 1) |->
                              IF i <= Len(ks) THEN HeapRow(ks[i])
                              ELSE HeapTotalRow]
            /\ hpc' = "written"
       ELSE /\ hpc' = "KeyError"
            /\ UNCHANGED report
    /\ UNCHANGED <<inferior, cached_usage_list, cached_reg_state, scan,
                   tally, intr, hcall>>
    /\ UNCHANGED <<setVars, passVars, walkVars, histVars, queryVars,
                   sizesVars, catVars, restVars>>

\* back at the prompt, the user may let the inferior run
Prompt ==
    /\ hpc \in {"written", "KeyError"}
    /\ hpc' = "prompt"
    /\ inferior' \in [regs : RegStates, live : SUBSET HeapAddrs]
    /\ UNCHANGED <<cached_usage_list, cached_reg_state, scan, tally, report,
                   intr, hcall>>
    /\ UNCHANGED <<setVars, passVars, walkVars, histVars, queryVars,
                   sizesVars, catVars, restVars>>

HeapNext ==
    \/ lazily_get_usage_list
    \/ ScanNext
    \/ CacheUpdate
    \/ LoopSize
    \/ LoopCount
    \/ LoopDone
    \/ KeyboardInterrupt
    \/ WriteTable
    \/ Prompt

HeapSpec == HeapInit /\ [][HeapNext]_vars

RECURSIVE SumColumn(_, _, _)
SumColumn(rows, n, col) ==
    IF n = 0 THEN 0
    ELSE SumColumn(rows, n - 1, col)
         + (IF col = "count" THEN Shown(rows[n].count)
            ELSE Shown(rows[n].size))

(***************************************************************************)
(* C21: when a user interrupt arrives while 'heap' is scanning, what was   *)
(* gathered before the interrupt is kept: the command still prints its     *)
(* table, the table accounts for every record the scan had retrieved, and  *)
(* its TOTAL row equals the sum over the rows of the categories.           *)
(***************************************************************************)
C21_InterruptKeepsGathered ==
    (intr /\ hpc \in {"written", "KeyError"}) =>
        /\ hpc = "written"
        /\ LET n == Len(report) - 1
               total == report[n + 1]
           IN  /\ total.detail = "TOTAL"
               /\ hcall.at \in {"scan", "categorize"} =>
                      Shown(total.count) = hcall.gathered
               /\ Shown(total.count) = SumColumn(report, n, "count")
               /\ Shown(total.size) = SumColumn(report, n, "size")

(***************************************************************************)
(* C24: a call of lazily_get_usage_list scans exactly when the register    *)
(* state differs from the one of the last completed scan, or no scan has   *)
(* completed; a call that does not scan returns the list of that scan,     *)
(* also when the scan found no allocations; a scan that does not complete  *)
(* leaves the cached list and the cached register state as they were.      *)
(***************************************************************************)
C24_ScansWhenStale ==
    hcall.n > 0 =>
        /\ hcall.scanned <=> (hcall.prior # hcall.reg)
        /\ (hcall.returned /\ ~hcall.scanned) =>
               hcall.ret = hcall.before.list.id
        /\ ~hcall.returned =>
               /\ cached_usage_list = hcall.before.list
               /\ cached_reg_state = hcall.before.reg

(***************************************************************************)
(* heap/cpython.py: PyArenaPtr.iter_usage and PyPoolPtr.iter_usage, the    *)
(* expansion of a recognized arena into the records of its pools.          *)
(*                                                                         *)
(* The arena lies at PoolBase, a multiple of POOL_SIZE (no alignment       *)
(* wastage), and holds ARENA_SIZE / POOL_SIZE pools.  Sizes are scaled     *)
(* down: the pool header takes POOL_OVERHEAD bytes and a block of size     *)
(* class szidx (szidx + 1) << ALIGNMENT_SHIFT.  What the header and the    *)
(* blocks hold is unknown to the tool: the inferior may be stopped inside  *)
(* its allocator, or its heap may be damaged.                              *)
(***************************************************************************)
ALIGNMENT_SHIFT == 2
\* ROUNDUP(sizeof(struct pool_header))
POOL_OVERHEAD == 4
\* the list of free blocks a call collects, at most
MaxFree == 4

PoolBase == POOL_SIZE
INDEX2SIZE(I) == (I + 1) * 2 ^ ALIGNMENT_SHIFT

\* the size classes, and the offsets and addresses a header field or the
\* first word of a free block can hold
SizeClasses == 0..1
Offsets == {POOL_OVERHEAD + k * INDEX2SIZE(0) :
               k \in 0..((POOL_SIZE - POOL_OVERHEAD) \div INDEX2SIZE(0))}
BlockPtrs == {PoolBase + o : o \in Offsets \ {POOL_SIZE}}

PoolInit ==
    /\ obmalloc \in [pool_address : {PoolBase, PoolBase + POOL_SIZE},
                      szidx : SizeClasses,
                      nextoffset : Offsets,
                      freeblock : {0} \cup BlockPtrs,
                      word : [BlockPtrs -> {0} \cup BlockPtrs]]
    /\ pit = [NoPit EXCEPT !.pc = "arena"]
    /\ pout = <<>>
    /\ usage = <<>> /\ visited = {} /\ calls = <<>>
    /\ PassIdle /\ WalkIdle /\ HistIdle /\ QueryIdle /\ SizesIdle /\ CatIdle
    /\ HeapIdle /\ PermIdle /\ FmtIdle

\* PyArenaPtr.iter_usage up to the first record: iter_pools yields the pool
\* unless it lies at or beyond pool_address, and PyPoolPtr.iter_usage
\* yields the record of the header
iter_pools ==
    /\ pit.pc = "arena"
    /\ IF (ARENA_SIZE \div POOL_SIZE) < 1 \/ PoolBase >= obmalloc.pool_address
       THEN /\ pit' = [pit EXCEPT !.pc = "done"]
            /\ UNCHANGED pout
       ELSE /\ pout' = <<[start |-> PoolBase, size |-> POOL_OVERHEAD,
                          category |-> Category("pyarena",
                                         "pool_header overhead", "None")]>>
            /\ pit' = [pit EXCEPT !.pc = "free",
                                  !.freeblock = obmalloc.freeblock]
    /\ UNCHANGED obmalloc
    /\ UNCHANGED <<setVars, passVars, walkVars, histVars, queryVars,
                   sizesVars, catVars, heapVars, permVars, fmtVars>>

\* one turn of "while long(freeblock) != 0" in iter_free_blocks, run by
\* fb = list(self.iter_free_blocks()); when the list is complete
\* iter_usage yields a record for each of its entries
iter_free_blocks ==
    /\ pit.pc = "free"
    /\ LET size == INDEX2SIZE(obmalloc.szidx)
       IN  IF pit.freeblock # 0
           THEN /\ Len(pit.fb) < MaxFree
                /\ pit' = [pit EXCEPT
                              !.fb = Append(@, <<pit.freeblock, size>>),
                              !.freeblock = obmalloc.word[pit.freeblock]]
                /\ UNCHANGED pout
           ELSE /\ pout' = pout \o
                      [i \in DOMAIN pit.fb |->
                          [start |-> pit.fb[i][1], size |-> pit.fb[i][2],
                           category |-> Category("pyarena",
                                          "freed pool chunk", "None")]]
                /\ pit' = [pit EXCEPT !.pc = "used",
                                      !.offset = POOL_OVERHEAD]
    /\ UNCHANGED obmalloc
    /\ UNCHANGED <<setVars, passVars, walkVars, histVars, queryVars,
                   sizesVars, catVars, heapVars, permVars, fmtVars>>

\* PyPoolPtr._free_blocks: the addresses iter_free_blocks gives, which are
\* those of fb since the inferior does not run
free_blocks == {pit.fb[i][1] : i \in DOMAIN pit.fb}

\* one turn of "while offset < nextoffset" in iter_used_blocks, with the
\* test "(start, size) not in fb" of iter_usage
iter_used_blocks ==
    /\ pit.pc = "used"
    /\ LET size == INDEX2SIZE(obmalloc.szidx)
           addr == PoolBase + pit.offset
       IN  IF pit.offset < obmalloc.nextoffset
           THEN /\ pout' = IF addr \notin free_blocks
                              /\ \A i \in DOMAIN pit.fb :
                                     pit.fb[i] # <<addr, size>>
                           THEN Append(pout, [start |-> addr, size |-> size,
                                              category |-> None])
                           ELSE pout
                /\ pit' = [pit EXCEPT !.offset = @ + size]
           ELSE /\ pit' = [pit EXCEPT !.pc = "done"]
                /\ UNCHANGED pout
    /\ UNCHANGED obmalloc
    /\ UNCHANGED <<setVars, passVars, walkVars, histVars, queryVars,
                   sizesVars, catVars, heapVars, permVars, fmtVars>>

PoolNext == iter_pools \/ iter_free_blocks \/ iter_used_blocks

PoolSpec == PoolInit /\ [][PoolNext]_vars

\* the blocks on the free list of the pool: those reached from the
\* freeblock field through the first word of each
RECURSIVE Linked(_, _)
Linked(p, found) ==
    IF p = 0 \/ p \in found THEN found
    ELSE Linked(obmalloc.word[p], found \cup {p})
FreeList == Linked(obmalloc.freeblock, {})

\* the records yielded with a category kind, or with none
PoolRecords(kind) ==
    {i \in DOMAIN pout :
        pout[i].category = IF kind = None THEN None
                           ELSE Category("pyarena", kind, "None")}
\* the block offsets from the first one up to nextoffset
UsedOffsets ==
    {o \in POOL_OVERHEAD..(obmalloc.nextoffset - 1) :
        (o - POOL_OVERHEAD) % INDEX2SIZE(obmalloc.szidx) = 0}

(***************************************************************************)
(* C27: for the initialized pool of the arena the expansion has yielded,   *)
(* when it is over, exactly one record of the header overhead at the pool  *)
(* address, one freed record per block on the free list, and one record    *)
(* per block offset below nextoffset whose address is not on the free      *)
(* list; no address is both freed and used, and no record of a block       *)
(* starts at or beyond nextoffset.                                         *)
(***************************************************************************)
C27_PoolRecords ==
    (pit.pc = "done" /\ PoolBase < obmalloc.pool_address) =>
        LET size == INDEX2SIZE(obmalloc.szidx)
            header == PoolRecords("pool_header overhead")
            freed == PoolRecords("freed pool chunk")
            used == PoolRecords(None)
        IN  /\ Cardinality(header) = 1
            /\ \A i \in header : /\ pout[i].start = PoolBase
                                  /\ pout[i].size = POOL_OVERHEAD
            /\ \A a \in FreeList :
                   Cardinality({i \in freed : pout[i].start = a}) = 1
            /\ \A i \in freed : pout[i].start \in FreeList
            /\ \A o \in UsedOffsets :
                   Cardinality({i \in used : pout[i].start = PoolBase + o})
                     = IF PoolBase + o \in FreeList THEN 0 ELSE 1
            /\ \A i \in used : pout[i].start - PoolBase \in UsedOffsets
            /\ \A i \in freed, j \in used : pout[i].start # pout[j].start
            /\ \A i \in freed \cup used :
                   /\ pout[i].size = size
                   /\ pout[i].start < PoolBase + obmalloc.nextoffset

(***************************************************************************)
(* heap/history.py: Diff.stats, with sign and fmt_size of                  *)
(* heap/__init__.py.                                                       *)
(*                                                                         *)
(* A snapshot is taken by its two totals: _totalsize and _num_usage; a     *)
(* snapshot without records has size 0.                                    *)
(***************************************************************************)
\* the records of a snapshot, at most
MaxBlocks == 2
TotalSizes == {123, 1234, 56789, 1000000}
Totals ==
    {[totalsize |-> 0, num_usage |-> 0]}
    \cup [totalsize : TotalSizes, num_usage : 1..MaxBlocks]

\* sign(amt)
sign(amt) == IF amt >= 0 THEN <<"+">> ELSE <<>>

FmtInit ==
    /\ totals \in [old : Totals, new : Totals]
    /\ rendered = <<>>
    /\ usage = <<>> /\ visited = {} /\ calls = <<>>
    /\ PassIdle /\ WalkIdle /\ HistIdle /\ QueryIdle /\ SizesIdle /\ CatIdle
    /\ HeapIdle /\ PermIdle /\ PoolIdle

size_change == totals.new.totalsize - totals.old.totalsize
count_change == totals.new.num_usage - totals.old.num_usage

\* Diff.stats: "%s%s bytes, %s%s blocks"
Diff_stats ==
    /\ rendered = <<>>
    /\ rendered' = sign(size_change) \o fmt_size(size_change)
                     \o <<" ", "b", "y", "t", "e", "s", ",", " ">>
                     \o sign(count_change) \o fmt_size(count_change)
                     \o <<" ", "b", "l", "o", "c", "k", "s">>
    /\ UNCHANGED totals
    /\ UNCHANGED <<setVars, passVars, walkVars, histVars, queryVars,
                   sizesVars, catVars, heapVars, permVars, poolVars>>

FmtNext == Diff_stats

FmtSpec == FmtInit /\ [][FmtNext]_vars

\* a delta as a sign and the digits of its magnitude in groups of three
Signed(delta) ==
    IF delta >= 0 THEN <<"+">> \o Grouped(str(delta))
    ELSE <<"-">> \o Grouped(str(0 - delta))

(***************************************************************************)
(* C30: Diff.stats renders the byte delta and the block delta, new total   *)
(* minus old total, each as its sign ('+' from zero up, '-' below) and     *)
(* the digits of its magnitude grouped in threes by commas, with no comma  *)
(* next to the sign: -123 gives '-123', -1234 gives '-1,234'.              *)
(***************************************************************************)
C30_SignedGrouped ==
    rendered # <<>> =>
        rendered = Signed(size_change)
                     \o <<" ", "b", "y", "t", "e", "s", ",", " ">>
                     \o Signed(count_change)
                     \o <<" ", "b", "l", "o", "c", "k", "s">>
====
